---------------------------- MODULE Spec2Model ----------------------------
(***************************************************************************)
(* A model of confy-cpp: the generic tree Value, the dot-path engine       *)
(* (DotPath.cpp), the deep-merge engine (Merge.cpp), the value parser      *)
(* (Parse.cpp), the environment mapper (EnvMapper.cpp), the file loaders   *)
(* (Loader.cpp) and the Config class (Config.cpp).                         *)
(*                                                                         *)
(* A std::string is a sequence of one-character strings, so that           *)
(* splitting, case folding and underscore rewriting are computed           *)
(* character by character as the code computes them.                       *)
(***************************************************************************)
EXTENDS Integers, Sequences, FiniteSets, TLC

VARIABLES
    data_,      \* the tree operated on: Config::data_, or the tree handed to a free function
    environ,    \* the process environment: a sequence of <<name, value>> pairs
    call,       \* the last call made: its name and its arguments
    ret,        \* the outcome of the last call: the exception thrown ("none" when it
                \* returned) and what it returned
    nops        \* number of calls made on the Config so far

vars == <<data_, environ, call, ret, nops>>

---------------------------------------------------------------------------
(* Value: nlohmann::json as a tagged record.                               *)

VNull == [t |-> "null"]
VBool(b) == [t |-> "bool", b |-> b]
VInt(i) == [t |-> "int", i |-> i]
VFloat(f) == [t |-> "float", f |-> f]
VStr(s) == [t |-> "str", s |-> s]
VArr(a) == [t |-> "arr", a |-> a]
VObj(o) == [t |-> "obj", o |-> o]

\* Value::object()
EmptyObject == VObj(<<>>)

is_null(v) == v.t = "null"
is_string(v) == v.t = "str"
is_array(v) == v.t = "arr"
is_object(v) == v.t = "obj"

\* json::contains(key) on an object
ObjContains(v, k) == is_object(v) /\ k \in DOMAIN v.o

\* (*obj)[key] = value on an object
ObjPut(v, k, x) == VObj([q \in (DOMAIN v.o) \cup {k} |-> IF q = k THEN x ELSE v.o[q]])

\* obj.erase(key)
ObjErase(v, k) == VObj([q \in (DOMAIN v.o) \ {k} |-> v.o[q]])

\* A returned value, and a thrown exception
Ok(v) == [exc |-> "none", val |-> v]
Throw(e) == [exc |-> e]

---------------------------------------------------------------------------
(* Characters.                                                             *)

Digits == <<"0", "1", "2", "3", "4", "5", "6", "7", "8", "9">>
UpperCase == <<"A", "B", "C", "D", "E", "F", "G", "H", "I", "J", "K", "L", "M",
               "N", "O", "P", "Q", "R", "S", "T", "U", "V", "W", "X", "Y", "Z">>
LowerCase == <<"a", "b", "c", "d", "e", "f", "g", "h", "i", "j", "k", "l", "m",
               "n", "o", "p", "q", "r", "s", "t", "u", "v", "w", "x", "y", "z">>

\* ::isdigit
isdigit(c) == \E i \in 1..10 : Digits[i] = c

DigitVal(c) == (CHOOSE i \in 1..10 : Digits[i] = c) - 1

\* std::tolower / std::toupper on one character
tolower(c) == IF \E i \in 1..26 : UpperCase[i] = c
              THEN LowerCase[CHOOSE i \in 1..26 : UpperCase[i] = c] ELSE c
toupper(c) == IF \E i \in 1..26 : LowerCase[i] = c
              THEN UpperCase[CHOOSE i \in 1..26 : LowerCase[i] = c] ELSE c

to_lower(s) == [i \in 1..Len(s) |-> tolower(s[i])]
to_upper(s) == [i \in 1..Len(s) |-> toupper(s[i])]

---------------------------------------------------------------------------
(* DotPath.cpp                                                             *)

RECURSIVE SplitFrom(_, _, _, _)
\* the loop of split_dot_path: i is the next character, cur the segment being built
SplitFrom(path, i, cur, segs) ==
    IF i > Len(path)
    THEN IF cur # <<>> THEN Append(segs, cur) ELSE segs
    ELSE IF path[i] = "."
         THEN IF cur # <<>> THEN SplitFrom(path, i + 1, <<>>, Append(segs, cur))
                            ELSE SplitFrom(path, i + 1, cur, segs)
         ELSE SplitFrom(path, i + 1, Append(cur, path[i]), segs)

split_dot_path(path) == IF path = <<>> THEN <<>> ELSE SplitFrom(path, 1, <<>>, <<>>)

RECURSIVE join_dot_path(_)
join_dot_path(segments) ==
    IF segments = <<>> THEN <<>>
    ELSE IF Len(segments) = 1 THEN segments[1]
    ELSE segments[1] \o <<".">> \o join_dot_path(Tail(segments))

is_array_index(segment) ==
    /\ segment # <<>>
    /\ ~(segment[1] = "0" /\ Len(segment) > 1)
    /\ \A i \in 1..Len(segment) : isdigit(segment[i])

\* ULLONG_MAX = 18446744073709551615, as its decimal digits
ULLONG_MAX_DIGITS == <<1, 8, 4, 4, 6, 7, 4, 4, 0, 7, 3, 7, 0, 9, 5, 5, 1, 6, 1, 5>>

RECURSIVE DigitsGreater(_, _, _)
\* seg and lim have the same length: is seg > lim as a decimal number
DigitsGreater(seg, lim, i) ==
    IF i > Len(seg) THEN FALSE
    ELSE IF DigitVal(seg[i]) > lim[i] THEN TRUE
    ELSE IF DigitVal(seg[i]) < lim[i] THEN FALSE
    ELSE DigitsGreater(seg, lim, i + 1)

\* std::stoull throws std::out_of_range when the digits exceed ULLONG_MAX
StoullOverflows(segment) ==
    \/ Len(segment) > Len(ULLONG_MAX_DIGITS)
    \/ /\ Len(segment) = Len(ULLONG_MAX_DIGITS)
       /\ DigitsGreater(segment, ULLONG_MAX_DIGITS, 1)

RECURSIVE DigitsToNat(_, _, _)
DigitsToNat(segment, i, acc) ==
    IF i > Len(segment) THEN acc
    ELSE DigitsToNat(segment, i + 1, acc * 10 + DigitVal(segment[i]))

\* Digit strings longer than this denote an index beyond every array of the model
SmallIndexDigits == 6

\* parse_array_index: the index, as far as it can be compared with a size:
\* an index of more than SmallIndexDigits digits is reported as size
ParseArrayIndexCapped(segment, size) ==
    IF Len(segment) > SmallIndexDigits THEN size
    ELSE DigitsToNat(segment, 1, 0)

\* parse_array_index: Ok(index) or the exception of std::stoull
parse_array_index(segment, size) ==
    IF StoullOverflows(segment) THEN Throw("out_of_range")
    ELSE Ok(ParseArrayIndexCapped(segment, size))

RECURSIVE GetWalk(_, _, _)
\* the loop of get_by_dot(data, path): current node, segments, index of the next segment
GetWalk(current, segments, i) ==
    IF i > Len(segments) THEN Ok(current)
    ELSE LET seg == segments[i] IN
         IF ~is_object(current) /\ ~is_array(current) THEN Throw("TypeError")
         ELSE IF is_object(current)
         THEN IF ~ObjContains(current, seg) THEN Throw("KeyError")
              ELSE GetWalk(current.o[seg], segments, i + 1)
         ELSE IF ~is_array_index(seg) THEN Throw("KeyError")
              ELSE LET idx == parse_array_index(seg, Len(current.a)) IN
                   IF idx.exc # "none" THEN idx
                   ELSE IF idx.val >= Len(current.a) THEN Throw("KeyError")
                   ELSE GetWalk(current.a[idx.val + 1], segments, i + 1)

\* get_by_dot(data, path): strict lookup
get_by_dot(data, path) ==
    LET segments == split_dot_path(path) IN
    IF segments = <<>> THEN Ok(data) ELSE GetWalk(data, segments, 1)

RECURSIVE GetDefaultWalkNullOnRange(_, _, _, _)
\* GetDefaultWalk returning Null instead of the fallback for an index out of range
GetDefaultWalkNullOnRange(current, segments, i, default_val) ==
    IF i > Len(segments) THEN Ok(current)
    ELSE LET seg == segments[i] IN
         IF ~is_object(current) /\ ~is_array(current) THEN Throw("TypeError")
         ELSE IF is_object(current)
         THEN IF ~ObjContains(current, seg) THEN Ok(default_val)
              ELSE GetDefaultWalkNullOnRange(current.o[seg], segments, i + 1, default_val)
         ELSE IF ~is_array_index(seg) THEN Ok(default_val)
              ELSE LET idx == parse_array_index(seg, Len(current.a)) IN
                   IF idx.exc # "none" THEN idx
                   ELSE IF idx.val >= Len(current.a) THEN Ok(VNull)
                   ELSE GetDefaultWalkNullOnRange(current.a[idx.val + 1], segments, i + 1,
                                                  default_val)

RECURSIVE GetDefaultWalk(_, _, _, _)
\* the loop of get_by_dot(data, path, default_val)
GetDefaultWalk(current, segments, i, default_val) ==
    IF i > Len(segments) THEN Ok(current)
    ELSE LET seg == segments[i] IN
         IF ~is_object(current) /\ ~is_array(current) THEN Throw("TypeError")
         ELSE IF is_object(current)
         THEN IF ~ObjContains(current, seg) THEN Ok(default_val)
              ELSE GetDefaultWalk(current.o[seg], segments, i + 1, default_val)
         ELSE IF ~is_array_index(seg) THEN Ok(default_val)
              ELSE LET idx == parse_array_index(seg, Len(current.a)) IN
                   IF idx.exc # "none" THEN idx
                   ELSE IF idx.val >= Len(current.a) THEN Ok(default_val)
                   ELSE GetDefaultWalk(current.a[idx.val + 1], segments, i + 1, default_val)

\* get_by_dot(data, path, default_val): lookup with a fallback
get_by_dot_default(data, path, default_val) ==
    LET segments == split_dot_path(path) IN
    IF segments = <<>> THEN Ok(data) ELSE GetDefaultWalk(data, segments, 1, default_val)

RECURSIVE ContainsWalkLenient(_, _, _)
\* ContainsWalk answering false where it should throw TypeError
ContainsWalkLenient(current, segments, i) ==
    IF i > Len(segments) THEN Ok(TRUE)
    ELSE LET seg == segments[i] IN
         IF ~is_object(current) /\ ~is_array(current) THEN Ok(FALSE)
         ELSE IF is_object(current)
         THEN IF ~ObjContains(current, seg) THEN Ok(FALSE)
              ELSE ContainsWalkLenient(current.o[seg], segments, i + 1)
         ELSE IF ~is_array_index(seg) THEN Ok(FALSE)
              ELSE LET idx == parse_array_index(seg, Len(current.a)) IN
                   IF idx.exc # "none" THEN idx
                   ELSE IF idx.val >= Len(current.a) THEN Ok(FALSE)
                   ELSE ContainsWalkLenient(current.a[idx.val + 1], segments, i + 1)

RECURSIVE ContainsWalk(_, _, _)
\* the loop of contains_dot(data, path)
ContainsWalk(current, segments, i) ==
    IF i > Len(segments) THEN Ok(TRUE)
    ELSE LET seg == segments[i] IN
         IF ~is_object(current) /\ ~is_array(current) THEN Throw("TypeError")
         ELSE IF is_object(current)
         THEN IF ~ObjContains(current, seg) THEN Ok(FALSE)
              ELSE ContainsWalk(current.o[seg], segments, i + 1)
         ELSE IF ~is_array_index(seg) THEN Ok(FALSE)
              ELSE LET idx == parse_array_index(seg, Len(current.a)) IN
                   IF idx.exc # "none" THEN idx
                   ELSE IF idx.val >= Len(current.a) THEN Ok(FALSE)
                   ELSE ContainsWalk(current.a[idx.val + 1], segments, i + 1)

\* contains_dot(data, path): existence check
contains_dot(data, path) ==
    LET segments == split_dot_path(path) IN
    IF segments = <<>> THEN Ok(TRUE) ELSE ContainsWalk(data, segments, 1)

\* the outcome of set_by_dot: the exception thrown and the tree as the call left it
SetResult(e, node) == [exc |-> e, data |-> node]

\* SetFinal writing into a node that is not an Object whatever create_missing is
SetFinalLenient(current, final_seg, value, create_missing) ==
    LET obj == IF is_object(current) THEN current ELSE EmptyObject
    IN [exc |-> "none", data |-> ObjPut(obj, final_seg, value)]

\* SetFinal without the reset of a non-object node to an empty Object
SetFinalNoReset(current, final_seg, value, create_missing) ==
    IF ~is_object(current) THEN [exc |-> "TypeError", data |-> current]
    ELSE [exc |-> "none", data |-> ObjPut(current, final_seg, value)]

\* the last step of set_by_dot: write the final segment into current
SetFinal(current, final_seg, value, create_missing) ==
    IF ~is_object(current) /\ ~create_missing THEN SetResult("TypeError", current)
    ELSE LET obj == IF is_object(current) THEN current ELSE EmptyObject
         IN SetResult("none", ObjPut(obj, final_seg, value))

RECURSIVE SetWalk(_, _, _, _, _)
\* SetWalk creating a missing intermediate Object before it fails with KeyError
SetWalkCreating(current, segments, i, value, create_missing) ==
    IF i = Len(segments) THEN SetFinal(current, segments[i], value, create_missing)
    ELSE LET seg == segments[i] IN
         IF ~is_object(current) /\ ~create_missing THEN SetResult("TypeError", current)
         ELSE LET obj == IF is_object(current) THEN current ELSE EmptyObject IN
              IF ~ObjContains(obj, seg) /\ ~create_missing
              THEN SetResult("KeyError", ObjPut(obj, seg, EmptyObject))
              ELSE LET made == IF ObjContains(obj, seg) THEN obj
                               ELSE ObjPut(obj, seg, EmptyObject)
                       sub == SetWalk(made.o[seg], segments, i + 1, value, create_missing)
                   IN SetResult(sub.exc, ObjPut(made, seg, sub.data))

\* SetWalk descending into a fresh Object whether or not the intermediate exists
SetWalkFresh(current, segments, i, value, create_missing) ==
    IF i = Len(segments) THEN SetFinal(current, segments[i], value, create_missing)
    ELSE LET seg == segments[i] IN
         IF ~is_object(current) /\ ~create_missing THEN SetResult("TypeError", current)
         ELSE LET obj == IF is_object(current) THEN current ELSE EmptyObject IN
              IF ~ObjContains(obj, seg) /\ ~create_missing THEN SetResult("KeyError", obj)
              ELSE LET sub == SetWalk(EmptyObject, segments, i + 1, value, create_missing)
                   IN SetResult(sub.exc, ObjPut(obj, seg, sub.data))

\* the loop of set_by_dot over all but the last segment, then the final write
SetWalk(current, segments, i, value, create_missing) ==
    IF i = Len(segments) THEN SetFinal(current, segments[i], value, create_missing)
    ELSE LET seg == segments[i] IN
         IF ~is_object(current) /\ ~create_missing THEN SetResult("TypeError", current)
         ELSE LET obj == IF is_object(current) THEN current ELSE EmptyObject IN
              IF ~ObjContains(obj, seg) /\ ~create_missing THEN SetResult("KeyError", obj)
              ELSE LET made == IF ObjContains(obj, seg) THEN obj
                               ELSE ObjPut(obj, seg, EmptyObject)
                       sub == SetWalk(made.o[seg], segments, i + 1, value, create_missing)
                   IN SetResult(sub.exc, ObjPut(made, seg, sub.data))

\* set_by_dot(data, path, value, create_missing)
set_by_dot(data, path, value, create_missing) ==
    LET segments == split_dot_path(path) IN
    IF segments = <<>> THEN SetResult("none", value)
    ELSE SetWalk(data, segments, 1, value, create_missing)

---------------------------------------------------------------------------
(* Merge.cpp                                                               *)

RECURSIVE deep_merge_null_replaces(_, _)
\* deep_merge without its first rule: a Null incoming value replaces the base
deep_merge_null_replaces(base, override_val) ==
    IF is_null(base) THEN override_val
    ELSE IF is_object(base) /\ is_object(override_val)
    THEN VObj([key \in (DOMAIN base.o) \cup (DOMAIN override_val.o) |->
                 IF key \notin DOMAIN override_val.o THEN base.o[key]
                 ELSE IF key \in DOMAIN base.o
                      THEN deep_merge_null_replaces(base.o[key], override_val.o[key])
                      ELSE override_val.o[key]])
    ELSE override_val

RECURSIVE deep_merge(_, _)
deep_merge(base, override_val) ==
    IF is_null(override_val) THEN base
    ELSE IF is_null(base) THEN override_val
    ELSE IF is_object(base) /\ is_object(override_val)
    THEN VObj([key \in (DOMAIN base.o) \cup (DOMAIN override_val.o) |->
                 IF key \notin DOMAIN override_val.o THEN base.o[key]
                 ELSE IF key \in DOMAIN base.o
                      THEN deep_merge(base.o[key], override_val.o[key])
                      ELSE override_val.o[key]])
    ELSE override_val

RECURSIVE MergeFrom(_, _, _)
\* the loop of deep_merge_all: result so far, sources, index of the next source
MergeFrom(result, sources, i) ==
    IF i > Len(sources) THEN result
    ELSE MergeFrom(deep_merge(result, sources[i]), sources, i + 1)

\* deep_merge_all folding from an empty Object instead of the first source
deep_merge_all_empty_seed(sources) == MergeFrom(EmptyObject, sources, 1)

deep_merge_all(sources) ==
    IF sources = <<>> THEN EmptyObject ELSE MergeFrom(sources[1], sources, 2)

---------------------------------------------------------------------------
(* Parse.cpp                                                               *)

\* the characters of the model in the order of their codes (std::string compares bytes)
CharOrder ==
    <<"0x1F", " ", "\"", "#", "'", ",", "-", ".", "/",
      "0", "1", "2", "3", "4", "5", "6", "7", "8", "9", ":", "=",
      "A", "B", "C", "D", "E", "F", "G", "H", "I", "J", "K", "L", "M",
      "N", "O", "P", "Q", "R", "S", "T", "U", "V", "W", "X", "Y", "Z",
      "[", "\\", "]", "_",
      "a", "b", "c", "d", "e", "f", "g", "h", "i", "j", "k", "l", "m",
      "n", "o", "p", "q", "r", "s", "t", "u", "v", "w", "x", "y", "z",
      "{", "}">>

CharCode(c) == CHOOSE i \in 1..Len(CharOrder) : CharOrder[i] = c

RECURSIVE StrLess(_, _)
\* std::string operator<
StrLess(s, u) ==
    IF u = <<>> THEN FALSE
    ELSE IF s = <<>> THEN TRUE
    ELSE IF s[1] = u[1] THEN StrLess(Tail(s), Tail(u))
    ELSE CharCode(s[1]) < CharCode(u[1])

AllDigits(s) == \A i \in 1..Len(s) : isdigit(s[i])

\* the regular expression ^-?[0-9]+$
MatchesInteger(str) ==
    LET body == IF str # <<>> /\ str[1] = "-" THEN Tail(str) ELSE str
    IN body # <<>> /\ AllDigits(body)

\* the regular expression ^-?[0-9]+\.[0-9]+([eE][+-]?[0-9]+)?$
MatchesFloat(str) ==
    LET body == IF str # <<>> /\ str[1] = "-" THEN Tail(str) ELSE str IN
    \E dot \in 2..(Len(body) - 1) :
        /\ body[dot] = "."
        /\ AllDigits(SubSeq(body, 1, dot - 1))
        /\ \/ AllDigits(SubSeq(body, dot + 1, Len(body)))
           \/ \E e \in (dot + 2)..(Len(body) - 1) :
                /\ body[e] \in {"e", "E"}
                /\ AllDigits(SubSeq(body, dot + 1, e - 1))
                /\ LET ex == SubSeq(body, e + 1, Len(body))
                       ds == IF ex[1] \in {"+", "-"} THEN Tail(ex) ELSE ex
                   IN ds # <<>> /\ AllDigits(ds)

RECURSIVE StripLeadingZeros(_)
StripLeadingZeros(ds) ==
    IF Len(ds) > 1 /\ ds[1] = "0" THEN StripLeadingZeros(Tail(ds)) ELSE ds

RECURSIVE StripTrailingZeros(_)
StripTrailingZeros(ds) ==
    IF ds # <<>> /\ ds[Len(ds)] = "0"
    THEN StripTrailingZeros(SubSeq(ds, 1, Len(ds) - 1)) ELSE ds

\* LLONG_MAX = 9223372036854775807 and -LLONG_MIN = 9223372036854775808, as digits
LLONG_MAX_DIGITS == <<9, 2, 2, 3, 3, 7, 2, 0, 3, 6, 8, 5, 4, 7, 7, 5, 8, 0, 7>>
LLONG_MIN_DIGITS == <<9, 2, 2, 3, 3, 7, 2, 0, 3, 6, 8, 5, 4, 7, 7, 5, 8, 0, 8>>

\* integers of at most this many digits are held as numbers, longer ones as digits
SmallIntDigits == 8

\* an int64 from a sign and digits without leading zeros
Int64Value(neg, ds) ==
    IF Len(ds) <= SmallIntDigits
    THEN VInt(IF neg THEN 0 - DigitsToNat(ds, 1, 0) ELSE DigitsToNat(ds, 1, 0))
    ELSE [t |-> "int", big |-> (IF neg THEN <<"-">> ELSE <<>>) \o ds]

\* std::stoll on a string that matches ^-?[0-9]+$: Ok(value) or out_of_range
stoll(str) ==
    LET neg == str[1] = "-"
        ds == StripLeadingZeros(IF neg THEN Tail(str) ELSE str)
        lim == IF neg THEN LLONG_MIN_DIGITS ELSE LLONG_MAX_DIGITS
    IN IF Len(ds) > Len(lim) \/ (Len(ds) = Len(lim) /\ DigitsGreater(ds, lim, 1))
       THEN Throw("out_of_range")
       ELSE Ok(Int64Value(neg /\ ds # <<"0">>, ds))

\* exponents beyond this magnitude are outside the range of a double
MaxDoubleExp10 == 300

\* a double as sign, significant digits d1..dn (no leading or trailing zero) and the
\* power of ten e of 0.d1..dn * 10^e; zero has no digits
DoubleValue(neg, int_ds, frac_ds, exp10) ==
    LET all == int_ds \o frac_ds
        lead == Len(all) - Len(StripLeadingZeros(all))
        sig == StripTrailingZeros(StripLeadingZeros(all))
    IN IF sig = <<>> \/ sig = <<"0">> THEN VFloat([neg |-> FALSE, ds |-> <<>>, e |-> 0])
       ELSE VFloat([neg |-> neg, ds |-> sig, e |-> Len(int_ds) - lead + exp10])

\* std::stod on a string that matches the float expression: Ok(value) or out_of_range
stod(str) ==
    LET neg == str[1] = "-"
        body == IF neg THEN Tail(str) ELSE str
        dot == CHOOSE i \in 1..Len(body) : body[i] = "."
        epos == {i \in 1..Len(body) : body[i] \in {"e", "E"}}
        mend == IF epos = {} THEN Len(body) ELSE (CHOOSE i \in epos : TRUE) - 1
        ex == IF epos = {} THEN <<>> ELSE SubSeq(body, mend + 2, Len(body))
        eneg == ex # <<>> /\ ex[1] = "-"
        eds == StripLeadingZeros(IF ex # <<>> /\ ex[1] \in {"+", "-"} THEN Tail(ex) ELSE ex)
        emag == IF ex = <<>> THEN 0
                ELSE IF Len(eds) > 3 THEN 2 * MaxDoubleExp10
                ELSE DigitsToNat(eds, 1, 0)
        v == DoubleValue(neg, SubSeq(body, 1, dot - 1), SubSeq(body, dot + 1, mend),
                         IF eneg THEN 0 - emag ELSE emag)
    IN IF v.f.ds # <<>> /\ (v.f.e > MaxDoubleExp10 \/ v.f.e < 0 - MaxDoubleExp10)
       THEN Throw("out_of_range")
       ELSE Ok(v)

IsWs(c) == c \in {" ", "\t", "\n", "\r"}

RECURSIVE SkipWs(_, _)
SkipWs(s, i) == IF i <= Len(s) /\ IsWs(s[i]) THEN SkipWs(s, i + 1) ELSE i

JFail == [ok |-> FALSE]
JOk(v, pos) == [ok |-> TRUE, val |-> v, pos |-> pos]

StartsAt(s, i, lit) ==
    i + Len(lit) - 1 <= Len(s) /\ SubSeq(s, i, i + Len(lit) - 1) = lit

RECURSIVE JsonString(_, _, _)
\* a JSON string body from position i (after the opening quote), acc the text so far
JsonString(s, i, acc) ==
    IF i > Len(s) THEN JFail
    ELSE IF s[i] = "\"" THEN JOk(acc, i + 1)
    ELSE IF s[i] \in {"0x1F", "\t", "\n", "\r"} THEN JFail
    ELSE IF s[i] = "\\"
    THEN IF i + 1 > Len(s) THEN JFail
         ELSE IF s[i + 1] \in {"\"", "\\", "/"} THEN JsonString(s, i + 2, Append(acc, s[i + 1]))
         ELSE IF s[i + 1] = "n" THEN JsonString(s, i + 2, Append(acc, "\n"))
         ELSE IF s[i + 1] = "t" THEN JsonString(s, i + 2, Append(acc, "\t"))
         ELSE IF s[i + 1] = "r" THEN JsonString(s, i + 2, Append(acc, "\r"))
         ELSE JFail
    ELSE JsonString(s, i + 1, Append(acc, s[i]))

RECURSIVE DigitRun(_, _)
\* the position after the digits that start at i
DigitRun(s, i) == IF i <= Len(s) /\ isdigit(s[i]) THEN DigitRun(s, i + 1) ELSE i

\* a JSON number at position i: -?(0|[1-9][0-9]*)(\.[0-9]+)?([eE][+-]?[0-9]+)?
JsonNumber(s, i) ==
    LET j == IF i <= Len(s) /\ s[i] = "-" THEN i + 1 ELSE i
        k == DigitRun(s, j)
        intOk == k > j /\ (s[j] # "0" \/ k = j + 1)
        hasFrac == k <= Len(s) /\ s[k] = "."
        m == IF hasFrac THEN DigitRun(s, k + 1) ELSE k
        fracOk == ~hasFrac \/ m > k + 1
        hasExp == m <= Len(s) /\ s[m] \in {"e", "E"}
        n0 == IF hasExp /\ m + 1 <= Len(s) /\ s[m + 1] \in {"+", "-"} THEN m + 2 ELSE m + 1
        n == IF hasExp THEN DigitRun(s, n0) ELSE m
        expOk == ~hasExp \/ n > n0
        text == SubSeq(s, i, n - 1)
    IN IF ~(intOk /\ fracOk /\ expOk) THEN JFail
       ELSE IF ~hasFrac /\ ~hasExp
       THEN LET r == stoll(text) IN
            IF r.exc = "none" THEN JOk(r.val, n)
            ELSE IF s[i] # "-" /\ ~StoullOverflows(StripLeadingZeros(text))
            THEN JOk([t |-> "int", big |-> text], n)
            ELSE JOk([t |-> "float", big |-> text], n)
       ELSE IF hasFrac
       THEN LET r == stod(text) IN IF r.exc = "none" THEN JOk(r.val, n) ELSE JFail
       ELSE LET r == stod(SubSeq(s, i, m - 1) \o <<".", "0">> \o SubSeq(s, m, n - 1)) IN
            IF r.exc = "none" THEN JOk(r.val, n) ELSE JFail

RECURSIVE JsonValue(_, _)
RECURSIVE JsonArrayRest(_, _, _)
RECURSIVE JsonObjectRest(_, _, _)

\* the elements of an array after "[" or ",": i stands on the next element
JsonArrayRest(s, i, acc) ==
    LET e == JsonValue(s, i) IN
    IF ~e.ok THEN JFail
    ELSE LET j == SkipWs(s, e.pos) IN
         IF j > Len(s) THEN JFail
         ELSE IF s[j] = "]" THEN JOk(VArr(Append(acc, e.val)), j + 1)
         ELSE IF s[j] = "," THEN JsonArrayRest(s, j + 1, Append(acc, e.val))
         ELSE JFail

\* the members of an object after "{" or ",": i stands before the next key
JsonObjectRest(s, i, acc) ==
    LET k0 == SkipWs(s, i) IN
    IF k0 > Len(s) \/ s[k0] # "\"" THEN JFail
    ELSE LET key == JsonString(s, k0 + 1, <<>>) IN
         IF ~key.ok THEN JFail
         ELSE LET c == SkipWs(s, key.pos) IN
              IF c > Len(s) \/ s[c] # ":" THEN JFail
              ELSE LET e == JsonValue(s, c + 1) IN
                   IF ~e.ok THEN JFail
                   ELSE LET j == SkipWs(s, e.pos)
                            obj == ObjPut(acc, key.val, e.val)
                        IN IF j > Len(s) THEN JFail
                           ELSE IF s[j] = "}" THEN JOk(obj, j + 1)
                           ELSE IF s[j] = "," THEN JsonObjectRest(s, j + 1, obj)
                           ELSE JFail

\* one JSON value starting at or after position i
JsonValue(s, i0) ==
    LET i == SkipWs(s, i0) IN
    IF i > Len(s) THEN JFail
    ELSE IF StartsAt(s, i, <<"n", "u", "l", "l">>) THEN JOk(VNull, i + 4)
    ELSE IF StartsAt(s, i, <<"t", "r", "u", "e">>) THEN JOk(VBool(TRUE), i + 4)
    ELSE IF StartsAt(s, i, <<"f", "a", "l", "s", "e">>) THEN JOk(VBool(FALSE), i + 5)
    ELSE IF s[i] = "\""
    THEN LET r == JsonString(s, i + 1, <<>>) IN
         IF r.ok THEN JOk(VStr(r.val), r.pos) ELSE JFail
    ELSE IF s[i] = "["
    THEN LET j == SkipWs(s, i + 1) IN
         IF j <= Len(s) /\ s[j] = "]" THEN JOk(VArr(<<>>), j + 1)
         ELSE JsonArrayRest(s, i + 1, <<>>)
    ELSE IF s[i] = "{"
    THEN LET j == SkipWs(s, i + 1) IN
         IF j <= Len(s) /\ s[j] = "}" THEN JOk(EmptyObject, j + 1)
         ELSE JsonObjectRest(s, i + 1, EmptyObject)
    ELSE IF s[i] = "-" \/ isdigit(s[i]) THEN JsonNumber(s, i)
    ELSE JFail

\* Value::parse(str): Ok(document) or the parse error of the JSON library
\* the document r read from str is the result when only whitespace follows it
WholeDocument(str, r) ==
    IF r.ok /\ SkipWs(str, r.pos) > Len(str) THEN Ok(r.val) ELSE Throw("parse_error")

ValueParse(str) == WholeDocument(str, JsonValue(str, 1))

\* rules T5..T7 of parse_value for a string that starts with front and ends with
\* back, parsed being what Value::parse makes of it
CompoundOr(str, front, back, parsed) ==
    IF ((front = "{" /\ back = "}") \/ (front = "[" /\ back = "]")) /\ parsed.exc = "none"
    THEN parsed.val
    ELSE IF front = "\"" /\ back = "\"" /\ Len(str) >= 2 /\ parsed.exc = "none"
            /\ is_string(parsed.val)
    THEN parsed.val
    ELSE VStr(str)

ParseCompound(str) == CompoundOr(str, str[1], str[Len(str)], ValueParse(str))

\* rule T3 followed at once by the rules after T4
NumberOrNoFloat(str, t3, t4) ==
    IF t3.exc = "none" THEN t3.val ELSE ParseCompound(str)

\* the value of rule T3 or T4 when its conversion succeeded, else the later rules
NumberOr(str, t3, t4) ==
    IF t3.exc = "none" THEN t3.val
    ELSE IF t4.exc = "none" THEN t4.val
    ELSE ParseCompound(str)

\* rules T3 and T4 of parse_value, then the later rules
ParseNumber(str) ==
    NumberOr(str,
             IF MatchesInteger(str) THEN stoll(str) ELSE Throw("no match"),
             IF MatchesFloat(str) THEN stod(str) ELSE Throw("no match"))

parse_value(str) ==
    IF str = <<>> THEN VStr(<<>>)
    ELSE LET lower == to_lower(str) IN
         IF lower = <<"t", "r", "u", "e">> THEN VBool(TRUE)
         ELSE IF lower = <<"f", "a", "l", "s", "e">> THEN VBool(FALSE)
         ELSE IF lower = <<"n", "u", "l", "l">> THEN VNull
         ELSE ParseNumber(str)

---------------------------------------------------------------------------
(* EnvMapper.cpp                                                           *)

\* SYSTEM_VAR_PREFIXES, in the order of the source
SYSTEM_VAR_PREFIXES ==
    <<<<"P", "A", "T", "H">>, <<"H", "O", "M", "E">>, <<"U", "S", "E", "R">>,
      <<"S", "H", "E", "L", "L">>, <<"T", "E", "R", "M">>, <<"L", "A", "N", "G">>,
      <<"L", "C", "_">>, <<"P", "W", "D">>, <<"O", "L", "D", "P", "W", "D">>,
      <<"H", "O", "S", "T", "N", "A", "M", "E">>, <<"L", "O", "G", "N", "A", "M", "E">>,
      <<"M", "A", "I", "L">>, <<"E", "D", "I", "T", "O", "R">>,
      <<"V", "I", "S", "U", "A", "L">>, <<"T", "M", "P", "D", "I", "R">>, <<"T", "M", "P">>,
      <<"T", "E", "M", "P">>, <<"X", "D", "G", "_">>, <<"D", "I", "S", "P", "L", "A", "Y">>,
      <<"S", "S", "H", "_">>, <<"G", "P", "G", "_">>, <<"D", "B", "U", "S", "_">>,
      <<"D", "E", "S", "K", "T", "O", "P", "_">>, <<"G", "N", "O", "M", "E", "_">>,
      <<"K", "D", "E", "_">>, <<"G", "T", "K", "_">>, <<"Q", "T", "_">>,
      <<"J", "A", "V", "A", "_">>, <<"P", "Y", "T", "H", "O", "N">>,
      <<"N", "O", "D", "E", "_">>, <<"N", "P", "M", "_">>, <<"N", "V", "M", "_">>,
      <<"V", "I", "R", "T", "U", "A", "L", "_", "E", "N", "V">>,
      <<"C", "O", "N", "D", "A", "_">>, <<"P", "I", "P", "_">>,
      <<"C", "A", "R", "G", "O", "_">>, <<"R", "U", "S", "T">>, <<"G", "O">>,
      <<"R", "B", "E", "N", "V">>, <<"G", "E", "M", "_">>,
      <<"B", "U", "N", "D", "L", "E", "_">>, <<"R", "A", "I", "L", "S", "_">>,
      <<"R", "A", "C", "K", "_">>, <<"_">>, <<"P", "S", "1">>, <<"P", "S", "2">>,
      <<"P", "S", "4">>, <<"P", "R", "O", "M", "P", "T", "_">>,
      <<"H", "I", "S", "T", "F", "I", "L", "E">>, <<"H", "I", "S", "T", "S", "I", "Z", "E">>,
      <<"S", "A", "V", "E", "H", "I", "S", "T">>, <<"L", "E", "S", "S">>,
      <<"M", "O", "R", "E">>, <<"P", "A", "G", "E", "R">>,
      <<"M", "A", "N", "P", "A", "T", "H">>, <<"I", "N", "F", "O", "P", "A", "T", "H">>,
      <<"L", "D", "_">>, <<"D", "Y", "L", "D", "_">>, <<"L", "I", "B", "P", "A", "T", "H">>,
      <<"C", "P", "A", "T", "H">>,
      <<"L", "I", "B", "R", "A", "R", "Y", "_", "P", "A", "T", "H">>,
      <<"P", "K", "G", "_", "C", "O", "N", "F", "I", "G">>, <<"C", "M", "A", "K", "E", "_">>,
      <<"C", "C">>, <<"C", "X", "X">>, <<"C", "F", "L", "A", "G", "S">>,
      <<"C", "X", "X", "F", "L", "A", "G", "S">>, <<"L", "D", "F", "L", "A", "G", "S">>,
      <<"M", "A", "K", "E", "F", "L", "A", "G", "S">>,
      <<"M", "A", "K", "E", "L", "E", "V", "E", "L">>, <<"S", "H", "L", "V", "L">>,
      <<"C", "O", "L", "O", "R", "T", "E", "R", "M">>,
      <<"C", "O", "L", "O", "R", "F", "G", "B", "G">>,
      <<"W", "I", "N", "D", "O", "W", "I", "D">>,
      <<"T", "E", "R", "M", "_", "P", "R", "O", "G", "R", "A", "M">>,
      <<"I", "T", "E", "R", "M", "_">>, <<"V", "S", "C", "O", "D", "E", "_">>,
      <<"W", "S", "L", "_">>, <<"W", "S", "L", "E", "N", "V">>, <<"W", "T", "_">>,
      <<"C", "O", "N", "E", "M", "U">>, <<"A", "N", "S", "I", "C", "O", "N">>,
      <<"C", "L", "I", "C", "O", "L", "O", "R">>, <<"F", "O", "R", "C", "E", "_">>,
      <<"N", "O", "_", "C", "O", "L", "O", "R">>, <<"D", "E", "B", "U", "G">>,
      <<"V", "E", "R", "B", "O", "S", "E">>, <<"C", "I">>,
      <<"G", "I", "T", "H", "U", "B", "_">>, <<"G", "I", "T", "L", "A", "B", "_">>,
      <<"T", "R", "A", "V", "I", "S", "_">>, <<"C", "I", "R", "C", "L", "E", "C", "I">>,
      <<"J", "E", "N", "K", "I", "N", "S", "_">>,
      <<"B", "U", "I", "L", "D", "K", "I", "T", "E", "_">>, <<"A", "Z", "U", "R", "E", "_">>,
      <<"A", "W", "S", "_">>, <<"G", "O", "O", "G", "L", "E", "_">>,
      <<"D", "O", "C", "K", "E", "R", "_">>,
      <<"K", "U", "B", "E", "R", "N", "E", "T", "E", "S", "_">>, <<"K", "8", "S", "_">>,
      <<"C", "O", "M", "P", "O", "S", "E", "_">>, <<"Z", "S", "H", "_">>, <<"L", "S", "_">>,
      <<"P", "Y", "T", "H", "O", "N", "U", "T", "F", "8">>,
      <<"P", "Y", "T", "H", "O", "N", "P", "A", "T", "H">>,
      <<"W", "I", "N", "D", "O", "W", "P", "A", "T", "H">>,
      <<"Q", "T", "W", "E", "B", "E", "N", "G", "I", "N", "E", "_">>, <<"M", "O", "Z", "_">>,
      <<"G", "D", "K", "_">>, <<"B", "R", "O", "W", "S", "E", "R">>,
      <<"U", "S", "E", "R", "N", "A", "M", "E">>,
      <<"S", "Y", "S", "T", "E", "M", "R", "O", "O", "T">>,
      <<"D", "O", "M", "A", "I", "N", "N", "A", "M", "E">>,
      <<"H", "O", "S", "T", "T", "Y", "P", "E">>, <<"O", "S", "T", "Y", "P", "E">>,
      <<"M", "A", "C", "H", "T", "Y", "P", "E">>>>

\* std::optional<std::string>: std::nullopt and a present string
NullOpt == [has |-> FALSE]
Some(s) == [has |-> TRUE, v |-> s]

starts_with_icase(str, prefix) ==
    /\ Len(prefix) <= Len(str)
    /\ \A i \in 1..Len(prefix) : toupper(prefix[i]) = toupper(str[i])

RECURSIVE ReplaceFrom(_, _, _, _)
\* the loop of replace_all: the text from position i on, with each occurrence of
\* from found from there on replaced by to
ReplaceFrom(str, i, from, to) ==
    IF i > Len(str) THEN <<>>
    ELSE IF StartsAt(str, i, from) THEN to \o ReplaceFrom(str, i + Len(from), from, to)
    ELSE <<str[i]>> \o ReplaceFrom(str, i + 1, from, to)

replace_all(str, from, to) == ReplaceFrom(str, 1, from, to)

is_system_variable(var_name) ==
    \E n \in 1..Len(SYSTEM_VAR_PREFIXES) :
        LET prefix == SYSTEM_VAR_PREFIXES[n] IN
        \/ Len(prefix) = 1 /\ to_upper(var_name) = to_upper(prefix)
        \/ starts_with_icase(var_name, prefix)

\* "\x1F_USCORE_\x1F"
TEMP_MARKER == <<"0x1F", "_", "U", "S", "C", "O", "R", "E", "_", "0x1F">>

transform_env_name(name) ==
    LET lowered == to_lower(name)
        marked == replace_all(lowered, <<"_", "_">>, TEMP_MARKER)
        dotted == replace_all(marked, <<"_">>, <<".">>)
    IN replace_all(dotted, TEMP_MARKER, <<"_">>)

strip_prefix(var_name, prefix) ==
    IF prefix = <<>> THEN var_name
    ELSE LET prefix_with_underscore == prefix \o <<"_">> IN
         IF starts_with_icase(var_name, prefix_with_underscore)
         THEN SubSeq(var_name, Len(prefix_with_underscore) + 1, Len(var_name))
         ELSE <<>>

RECURSIVE StripTrailingUnderscores(_)
StripTrailingUnderscores(s) ==
    IF s # <<>> /\ s[Len(s)] = "_"
    THEN StripTrailingUnderscores(SubSeq(s, 1, Len(s) - 1)) ELSE s

\* collect_env_vars(prefix), env being what get_all_env_vars returns
collect_env_vars(prefix, env) ==
    IF ~prefix.has THEN <<>>
    ELSE LET prefix_match == IF prefix.v # <<>>
                             THEN StripTrailingUnderscores(prefix.v) \o <<"_">>
                             ELSE <<>>
             should_include(entry) ==
                 IF prefix_match # <<>> THEN starts_with_icase(entry[1], prefix_match)
                 ELSE ~is_system_variable(entry[1])
         IN SelectSeq(env, should_include)

RECURSIVE SortedKeys(_)
\* the keys of a std::map in iteration order
SortedKeys(keys) ==
    IF keys = {} THEN <<>>
    ELSE LET least == CHOOSE k \in keys : \A q \in keys \ {k} : StrLess(k, q)
         IN <<least>> \o SortedKeys(keys \ {least})

RECURSIVE flatten_keys(_, _)
flatten_keys(data, prefix) ==
    IF ~is_object(data) THEN (IF prefix # <<>> THEN {prefix} ELSE {})
    ELSE UNION { LET new_key == IF prefix = <<>> THEN k ELSE prefix \o <<".">> \o k
                 IN {new_key} \cup (IF is_object(data.o[k])
                                    THEN flatten_keys(data.o[k], new_key) ELSE {})
                 : k \in DOMAIN data.o }

RECURSIVE flatten_to_pairs(_, _)
RECURSIVE FlattenMembers(_, _, _)
\* the loop of flatten_to_pairs over the members of an object, in key order
FlattenMembers(data, prefix, keys) ==
    IF keys = <<>> THEN <<>>
    ELSE LET k == keys[1]
             new_key == IF prefix = <<>> THEN k ELSE prefix \o <<".">> \o k
             here == IF is_object(data.o[k])
                     THEN <<<<new_key, data.o[k]>>>> \o flatten_to_pairs(data.o[k], new_key)
                     ELSE <<<<new_key, data.o[k]>>>>
         IN here \o FlattenMembers(data, prefix, Tail(keys))

flatten_to_pairs(data, prefix) ==
    IF ~is_object(data) THEN (IF prefix # <<>> THEN <<<<prefix, data>>>> ELSE <<>>)
    ELSE FlattenMembers(data, prefix, SortedKeys(DOMAIN data.o))

\* std::string::find(ch, from): the first position >= from holding ch, 0 when none
FindChar(s, ch, from) ==
    IF \E i \in from..Len(s) : s[i] = ch
    THEN CHOOSE i \in from..Len(s) : s[i] = ch /\ \A j \in from..(i - 1) : s[j] # ch
    ELSE 0

RECURSIVE RemapSplitDottedOnly(_, _, _)
\* heuristic 0 without the second candidate, which keeps the underscores of rest
RemapSplitDottedOnly(reconstructed_flat, underscore_pos, base_keys) ==
    IF underscore_pos = 0 THEN <<>>
    ELSE LET root == SubSeq(reconstructed_flat, 1, underscore_pos - 1)
             rest == SubSeq(reconstructed_flat, underscore_pos + 1, Len(reconstructed_flat))
             dotted == root \o <<".">> \o replace_all(rest, <<"_">>, <<".">>)
         IN IF dotted \in base_keys THEN dotted
            ELSE RemapSplitDottedOnly(reconstructed_flat,
                                      FindChar(reconstructed_flat, "_", underscore_pos + 1),
                                      base_keys)

RECURSIVE RemapSplit(_, _, _)
\* heuristic 0 of remap_env_key: split the flat key at successive underscores;
\* the matching candidate, or <<>> when no position matches
RemapSplit(reconstructed_flat, underscore_pos, base_keys) ==
    IF underscore_pos = 0 THEN <<>>
    ELSE LET root == SubSeq(reconstructed_flat, 1, underscore_pos - 1)
             rest == SubSeq(reconstructed_flat, underscore_pos + 1, Len(reconstructed_flat))
             dotted == root \o <<".">> \o replace_all(rest, <<"_">>, <<".">>)
             kept == root \o <<".">> \o rest
         IN IF dotted \in base_keys THEN dotted
            ELSE IF kept \in base_keys THEN kept
            ELSE RemapSplit(reconstructed_flat,
                            FindChar(reconstructed_flat, "_", underscore_pos + 1), base_keys)

RECURSIVE JoinWith(_, _)
\* the segments joined by sep
JoinWith(segments, sep) ==
    IF segments = <<>> THEN <<>>
    ELSE IF Len(segments) = 1 THEN segments[1]
    ELSE segments[1] \o sep \o JoinWith(Tail(segments), sep)

RECURSIVE RemapLongestPrefix(_, _, _)
\* the longest-prefix loop returning the matched prefix without the remaining
\* segments
RemapLongestPrefixDropping(segments, prefix_len, base_keys) ==
    IF prefix_len = 0 THEN <<>>
    ELSE LET candidate_prefix == JoinWith(SubSeq(segments, 1, prefix_len), <<"_">>)
             n == Len(candidate_prefix)
             hit == \E base_key \in base_keys :
                       \/ base_key = candidate_prefix
                       \/ /\ Len(base_key) > n
                          /\ SubSeq(base_key, 1, n) = candidate_prefix
                          /\ base_key[n + 1] = "."
         IN IF hit THEN candidate_prefix
            ELSE RemapLongestPrefix(segments, prefix_len - 1, base_keys)

\* the longest-prefix loop of remap_env_key, from prefix_len down to 1;
\* the key found, or <<>> when no prefix length matches
RemapLongestPrefix(segments, prefix_len, base_keys) ==
    IF prefix_len = 0 THEN <<>>
    ELSE LET candidate_prefix == JoinWith(SubSeq(segments, 1, prefix_len), <<"_">>)
             n == Len(candidate_prefix)
             hit == \E base_key \in base_keys :
                       \/ base_key = candidate_prefix
                       \/ /\ Len(base_key) > n
                          /\ SubSeq(base_key, 1, n) = candidate_prefix
                          /\ base_key[n + 1] = "."
             full_key == candidate_prefix \o <<".">>
                         \o JoinWith(SubSeq(segments, prefix_len + 1, Len(segments)), <<".">>)
         IN IF hit /\ prefix_len = Len(segments) THEN candidate_prefix
            ELSE IF hit /\ (full_key \in base_keys \/ candidate_prefix \in base_keys)
            THEN full_key
            ELSE RemapLongestPrefix(segments, prefix_len - 1, base_keys)

\* the fallback of remap_env_key when no heuristic matches
RemapFallback(dot_path, reconstructed_flat, prefix, load_dotenv) ==
    LET is_empty_prefix == prefix.has /\ prefix.v = <<>> IN
    IF is_empty_prefix /\ load_dotenv THEN <<>>
    ELSE IF ~is_empty_prefix /\ load_dotenv THEN dot_path
    ELSE IF ~is_empty_prefix /\ ~load_dotenv THEN reconstructed_flat
    ELSE dot_path

\* remap_env_key trying the reconstructed flat key before the split candidates
remap_env_key_flat_first(dot_path, base_keys, prefix, load_dotenv) ==
    IF dot_path \in base_keys THEN dot_path
    ELSE LET reconstructed_flat == replace_all(dot_path, <<".">>, <<"_">>)
             split == RemapSplit(reconstructed_flat,
                                 FindChar(reconstructed_flat, "_", 1), base_keys)
             segments == split_dot_path(dot_path)
             longest == RemapLongestPrefix(segments, Len(segments), base_keys)
         IN IF reconstructed_flat \in base_keys THEN reconstructed_flat
            ELSE IF split # <<>> THEN split
            ELSE IF longest # <<>> THEN longest
            ELSE RemapFallback(dot_path, reconstructed_flat, prefix, load_dotenv)

remap_env_key(dot_path, base_keys, prefix, load_dotenv) ==
    IF dot_path \in base_keys THEN dot_path
    ELSE LET reconstructed_flat == replace_all(dot_path, <<".">>, <<"_">>)
             split == RemapSplit(reconstructed_flat,
                                 FindChar(reconstructed_flat, "_", 1), base_keys)
             segments == split_dot_path(dot_path)
             longest == RemapLongestPrefix(segments, Len(segments), base_keys)
         IN IF split # <<>> THEN split
            ELSE IF reconstructed_flat \in base_keys THEN reconstructed_flat
            ELSE IF longest # <<>> THEN longest
            ELSE RemapFallback(dot_path, reconstructed_flat, prefix, load_dotenv)

\* the tree a set_by_dot under try/catch leaves: an exception leaves result as the
\* loop had it
SetOrSkip(result, r) == IF r.exc = "none" THEN r.data ELSE result

\* one variable of env_vars_to_nested written into result, key_part being its name
\* without the prefix
NestOne(result, key_part, raw_value) ==
    SetOrSkip(result, set_by_dot(result, transform_env_name(key_part),
                                 parse_value(raw_value), TRUE))

RECURSIVE NestFrom(_, _, _, _)
\* the loop of env_vars_to_nested from variable i on
NestFrom(env_vars, i, prefix_str, result) ==
    IF i > Len(env_vars) THEN result
    ELSE LET name == env_vars[i][1]
             key_part == IF prefix_str # <<>> THEN strip_prefix(name, prefix_str) ELSE name
         IN IF prefix_str # <<>> /\ key_part = <<>>
            THEN NestFrom(env_vars, i + 1, prefix_str, result)
            ELSE NestFrom(env_vars, i + 1, prefix_str,
                          NestOne(result, key_part, env_vars[i][2]))

env_vars_to_nested(env_vars, prefix) ==
    NestFrom(env_vars, 1, IF prefix.has THEN prefix.v ELSE <<>>, EmptyObject)

\* number of dots of a key: the depth the sort compares
Depth(key) == Cardinality({i \in 1..Len(key) : key[i] = "."})

RECURSIVE SortedAnyOrder(_)
\* the items in every order, whatever their depths
SortedAnyOrder(items) ==
    IF items = {} THEN {<<>>}
    ELSE UNION { {<<x>> \o q : q \in SortedAnyOrder(items \ {x})} : x \in items }

RECURSIVE SortedByDepth(_)
\* what std::sort may make of the items: every order with the deepest keys first
\* (the order of two keys of the same depth is not specified)
SortedByDepth(items) ==
    IF items = {} THEN {<<>>}
    ELSE LET deepest == {x \in items : \A y \in items : Depth(x[1]) >= Depth(y[1])}
         IN UNION { {<<x>> \o q : q \in SortedByDepth(items \ {x})} : x \in deepest }

RECURSIVE RemapFrom(_, _, _, _, _, _, _)
\* the loop of remap_and_flatten_env_data over the sorted items
RemapFrom(flat_items, i, base_keys, prefix, load_dotenv, assigned_keys, result) ==
    IF i > Len(flat_items) THEN result
    ELSE LET dot_key == flat_items[i][1]
             value == flat_items[i][2]
             final_key == remap_env_key(dot_key, base_keys, prefix, load_dotenv)
         IN IF is_object(value) \/ final_key = <<>> \/ final_key \in assigned_keys
            THEN RemapFrom(flat_items, i + 1, base_keys, prefix, load_dotenv,
                           assigned_keys, result)
            ELSE RemapFrom(flat_items, i + 1, base_keys, prefix, load_dotenv,
                           assigned_keys \cup {final_key},
                           Append(result, <<final_key, value>>))

\* base_config of remap_and_flatten_env_data: defaults with the top-level members
\* of the file data written over them; Value::operator[] makes an object of Null
\* and throws json::type_error on any other non-object
BaseConfig(defaults_data, file_data) ==
    IF ~is_object(file_data) \/ DOMAIN file_data.o = {} THEN Ok(defaults_data)
    ELSE IF ~is_null(defaults_data) /\ ~is_object(defaults_data)
    THEN Throw("json::type_error")
    ELSE LET base == IF is_null(defaults_data) THEN EmptyObject ELSE defaults_data
         IN Ok(VObj([k \in (DOMAIN base.o) \cup (DOMAIN file_data.o) |->
                       IF k \in DOMAIN file_data.o THEN file_data.o[k] ELSE base.o[k]]))

\* remap_and_flatten_env_data: the outcomes it may have, one for each order the
\* sort may produce
remap_and_flatten_env_data(nested_env_data, defaults_data, file_data, prefix, load_dotenv) ==
    LET base_config == BaseConfig(defaults_data, file_data) IN
    IF base_config.exc # "none" THEN {base_config}
    ELSE LET base_keys == flatten_keys(base_config.val, <<>>)
             flat_items == flatten_to_pairs(nested_env_data, <<>>)
             \* the loop skips the object values wherever the sort puts them: the
             \* orders of the other items are the ones that tell outcomes apart
             items == {flat_items[i] : i \in {n \in 1..Len(flat_items) :
                                                ~is_object(flat_items[n][2])}}
         IN { Ok(RemapFrom(sorted, 1, base_keys, prefix, load_dotenv, {}, <<>>))
              : sorted \in SortedByDepth(items) }

RECURSIVE AssembleFrom(_, _, _)
\* step 4 of load_env_vars: write every remapped pair into one tree
AssembleFrom(remapped, i, result) ==
    IF i > Len(remapped) THEN result
    ELSE AssembleFrom(remapped, i + 1,
                      SetOrSkip(result, set_by_dot(result, remapped[i][1],
                                                   remapped[i][2], TRUE)))

\* load_env_vars: the outcomes it may have, env being the process environment
load_env_vars(prefix, base_structure, defaults_data, file_data, load_dotenv, env) ==
    LET env_vars == collect_env_vars(prefix, env) IN
    IF env_vars = <<>> THEN {Ok(EmptyObject)}
    ELSE { IF remapped.exc # "none" THEN remapped
           ELSE Ok(AssembleFrom(remapped.val, 1, EmptyObject))
           : remapped \in remap_and_flatten_env_data(env_vars_to_nested(env_vars, prefix),
                                                      defaults_data, file_data, prefix,
                                                      load_dotenv) }

---------------------------------------------------------------------------
(* Loader.cpp.  The disk is a function disk from the paths of the regular    *)
(* files to their contents: a record with the text of the file and, for a   *)
(* TOML file, what toml::parse_file makes of it.                            *)

Whitespace == {" ", "\t", "\r", "\n"}

RECURSIVE trim(_)
trim(s) ==
    IF s = <<>> THEN <<>>
    ELSE IF s[1] \in Whitespace THEN trim(Tail(s))
    ELSE IF s[Len(s)] \in Whitespace THEN trim(SubSeq(s, 1, Len(s) - 1))
    ELSE s

RECURSIVE UnescapeFrom(_, _)
\* the escape processing of unquote on the text between double quotes
UnescapeFrom(content, i) ==
    IF i > Len(content) THEN <<>>
    ELSE IF content[i] = "\\" /\ i + 1 <= Len(content)
    THEN LET next == content[i + 1] IN
         IF next = "n" THEN <<"\n">> \o UnescapeFrom(content, i + 2)
         ELSE IF next = "r" THEN <<"\r">> \o UnescapeFrom(content, i + 2)
         ELSE IF next = "t" THEN <<"\t">> \o UnescapeFrom(content, i + 2)
         ELSE IF next \in {"\\", "\"", "'"} THEN <<next>> \o UnescapeFrom(content, i + 2)
         ELSE <<content[i]>> \o UnescapeFrom(content, i + 1)
    ELSE <<content[i]>> \o UnescapeFrom(content, i + 1)

unquote(s) ==
    IF Len(s) < 2 THEN s
    ELSE IF s[1] = "'" /\ s[Len(s)] = "'" THEN SubSeq(s, 2, Len(s) - 1)
    ELSE IF s[1] = "\"" /\ s[Len(s)] = "\"" THEN UnescapeFrom(SubSeq(s, 2, Len(s) - 1), 1)
    ELSE s

file_exists(path, disk) == path \in DOMAIN disk

\* nlohmann::json::parse under the try of load_json_file
ParsedOrError(parsed) ==
    IF parsed.exc # "none" THEN Throw("ConfigParseError") ELSE parsed

load_json_file(path, disk) ==
    IF ~file_exists(path, disk) THEN Throw("FileNotFoundError")
    ELSE ParsedOrError(ValueParse(disk[path].text))

RECURSIVE PromoteKeys(_, _, _, _, _)
\* the loop of load_toml_file over keys_to_promote of one section; the document
\* and the promoted keys as the loop leaves them
PromoteKeys(result, section_key, keys_to_promote, i, promoted_keys) ==
    IF i > Len(keys_to_promote) THEN [result |-> result, promoted_keys |-> promoted_keys]
    ELSE LET key_to_promote == keys_to_promote[i]
             section_data == result.o[section_key]
         IN IF ~ObjContains(result, key_to_promote) \/ key_to_promote \in promoted_keys
            THEN LET put == IF key_to_promote \notin promoted_keys
                            THEN ObjPut(result, key_to_promote, section_data.o[key_to_promote])
                            ELSE result
                     erased == ObjPut(put, section_key,
                                      ObjErase(put.o[section_key], key_to_promote))
                 IN PromoteKeys(erased, section_key, keys_to_promote, i + 1,
                                promoted_keys \cup {key_to_promote})
            ELSE PromoteKeys(result, section_key, keys_to_promote, i + 1, promoted_keys)

RECURSIVE PromoteSections(_, _, _, _, _)
\* the loop of load_toml_file over the members of the document. The iterator moves
\* through the std::map while keys are promoted into it: the member visited next
\* is the least key above the one visited last (visited is <<>> before the first,
\* <<last>> after)
PromoteSections(result, root_default_keys, visited, promoted_keys, empty_sections) ==
    LET ahead == {k \in DOMAIN result.o : visited = <<>> \/ StrLess(visited[1], k)} IN
    IF ahead = {} THEN [result |-> result, empty_sections |-> empty_sections]
    ELSE LET section_key == CHOOSE k \in ahead : \A q \in ahead \ {k} : StrLess(k, q)
             section_data == result.o[section_key]
         IN IF ~is_object(section_data)
            THEN PromoteSections(result, root_default_keys, <<section_key>>,
                                 promoted_keys, empty_sections)
            ELSE LET keys_to_promote ==
                         SortedKeys((DOMAIN section_data.o) \cap root_default_keys)
                     done == PromoteKeys(result, section_key, keys_to_promote, 1,
                                         promoted_keys)
                     emptied == DOMAIN done.result.o[section_key].o = {}
                 IN PromoteSections(done.result, root_default_keys, <<section_key>>,
                                    done.promoted_keys,
                                    IF emptied THEN empty_sections \cup {section_key}
                                    ELSE empty_sections)

\* toml::parse_file followed by toml_value_to_json: the table of the file as a
\* Value, or the parse error
toml_parse_file(path, disk) == disk[path].toml

load_toml_file(path, defaults, disk) ==
    IF ~file_exists(path, disk) THEN Throw("FileNotFoundError")
    ELSE LET table == toml_parse_file(path, disk) IN
         IF table.exc # "none" THEN Throw("ConfigParseError")
         ELSE LET result == table.val IN
              IF is_object(defaults) /\ DOMAIN defaults.o # {} /\ is_object(result)
              THEN LET done == PromoteSections(result, DOMAIN defaults.o, <<>>, {}, {})
                   IN Ok(VObj([k \in (DOMAIN done.result.o) \ done.empty_sections |->
                                 done.result.o[k]]))
              ELSE Ok(result)

\* the last position of s holding ch, 0 when none
FindLast(s, ch) ==
    IF \E i \in 1..Len(s) : s[i] = ch
    THEN CHOOSE i \in 1..Len(s) : s[i] = ch /\ \A j \in (i + 1)..Len(s) : s[j] # ch
    ELSE 0

\* std::filesystem::path::extension of the last component, lowercased
get_file_extension(path) ==
    LET slash == FindLast(path, "/")
        filename == SubSeq(path, slash + 1, Len(path))
        dot == FindLast(filename, ".")
    IN IF filename \in {<<".">>, <<".", ".">>} \/ dot <= 1 THEN <<>>
       ELSE to_lower(SubSeq(filename, dot, Len(filename)))

load_config_file(path, defaults, disk) ==
    IF path = <<>> THEN Ok(EmptyObject)
    ELSE IF ~file_exists(path, disk) THEN Throw("FileNotFoundError")
    ELSE LET ext == get_file_extension(path) IN
         IF ext = <<".", "j", "s", "o", "n">> THEN load_json_file(path, disk)
         ELSE IF ext = <<".", "t", "o", "m", "l">> THEN load_toml_file(path, defaults, disk)
         ELSE Throw("runtime_error")

RECURSIVE GetLines(_, _, _)
\* the lines std::getline reads from the text, cur being the line under way
GetLines(text, i, cur) ==
    IF i > Len(text) THEN (IF cur # <<>> THEN <<cur>> ELSE <<>>)
    ELSE IF text[i] = "\n" THEN <<cur>> \o GetLines(text, i + 1, <<>>)
    ELSE GetLines(text, i + 1, Append(cur, text[i]))

RECURSIVE CommentPos(_, _, _, _)
\* the scan of parse_dotenv_file for an inline comment outside quotes: the position
\* of its '#', 0 when none
CommentPos(value, i, in_single_quote, in_double_quote) ==
    IF i > Len(value) THEN 0
    ELSE LET c == value[i] IN
         IF c = "'" /\ ~in_double_quote
         THEN CommentPos(value, i + 1, ~in_single_quote, in_double_quote)
         ELSE IF c = "\"" /\ ~in_single_quote
         THEN CommentPos(value, i + 1, in_single_quote, ~in_double_quote)
         ELSE IF c = "#" /\ ~in_single_quote /\ ~in_double_quote THEN i
         ELSE CommentPos(value, i + 1, in_single_quote, in_double_quote)

\* one line of parse_dotenv_file: the entries it adds (none or one)
DotenvLine(line) ==
    LET trimmed0 == trim(line)
        export_prefix == <<"e", "x", "p", "o", "r", "t", " ">>
        trimmed == IF Len(trimmed0) > Len(export_prefix)
                      /\ to_lower(SubSeq(trimmed0, 1, Len(export_prefix))) = export_prefix
                   THEN trim(SubSeq(trimmed0, Len(export_prefix) + 1, Len(trimmed0)))
                   ELSE trimmed0
        eq_pos == FindChar(trimmed, "=", 1)
        key == trim(SubSeq(trimmed, 1, eq_pos - 1))
        value0 == SubSeq(trimmed, eq_pos + 1, Len(trimmed))
        comment_pos == CommentPos(value0, 1, FALSE, FALSE)
        value1 == IF comment_pos # 0 THEN SubSeq(value0, 1, comment_pos - 1) ELSE value0
        value == unquote(trim(value1))
    IN IF trimmed0 = <<>> \/ trimmed0[1] = "#" THEN <<>>
       ELSE IF eq_pos <= 1 THEN <<>>
       ELSE IF key # <<>> THEN <<<<key, value>>>> ELSE <<>>

RECURSIVE DotenvEntries(_, _)
DotenvEntries(lines, i) ==
    IF i > Len(lines) THEN <<>> ELSE DotenvLine(lines[i]) \o DotenvEntries(lines, i + 1)

parse_dotenv_file(path, disk) ==
    IF ~file_exists(path, disk) THEN [found |-> FALSE, entries |-> <<>>]
    ELSE [found |-> TRUE, entries |-> DotenvEntries(GetLines(disk[path].text, 1, <<>>), 1)]

\* find_dotenv from the current directory, whose only ancestor on the disk is ".."
find_dotenv(disk) ==
    IF file_exists(<<".", "e", "n", "v">>, disk) THEN <<".", "e", "n", "v">>
    ELSE IF file_exists(<<".", ".", "/", ".", "e", "n", "v">>, disk)
    THEN <<".", ".", "/", ".", "e", "n", "v">>
    ELSE <<>>

has_env_var(name, env) == \E i \in 1..Len(env) : env[i][1] = name

\* set_env_var as setenv with overwrite always set
set_env_var_overwriting(name, value, overwrite, env) ==
    IF name = <<>> \/ (\E i \in 1..Len(name) : name[i] = "=") THEN env
    ELSE IF has_env_var(name, env)
    THEN [i \in 1..Len(env) |-> IF env[i][1] = name THEN <<name, value>> ELSE env[i]]
    ELSE Append(env, <<name, value>>)

\* set_env_var: the environment after setenv(name, value, overwrite)
set_env_var(name, value, overwrite, env) ==
    IF ~overwrite /\ has_env_var(name, env) THEN env
    ELSE IF name = <<>> \/ (\E i \in 1..Len(name) : name[i] = "=") THEN env
    ELSE IF has_env_var(name, env)
    THEN [i \in 1..Len(env) |-> IF env[i][1] = name THEN <<name, value>> ELSE env[i]]
    ELSE Append(env, <<name, value>>)

RECURSIVE SetEntries(_, _, _, _)
\* the loop of load_dotenv_file over the entries of the file
SetEntries(entries, i, override_existing, env) ==
    IF i > Len(entries) THEN env
    ELSE SetEntries(entries, i + 1, override_existing,
                    set_env_var(entries[i][1], entries[i][2], override_existing, env))

\* load_dotenv_file: the environment it leaves
load_dotenv_file(path, override_existing, env, disk) ==
    LET dotenv_path == IF path = <<>> THEN find_dotenv(disk) ELSE path IN
    IF dotenv_path = <<>> THEN env
    ELSE LET result == parse_dotenv_file(dotenv_path, disk) IN
         IF ~result.found THEN env
         ELSE SetEntries(result.entries, 1, override_existing, env)

---------------------------------------------------------------------------
(* Config.cpp                                                              *)

\* Config::Config(const Value& data): the root of the new Config, or TypeError
Config(data) == IF ~is_object(data) THEN Throw("TypeError") ELSE Ok(data)

RECURSIVE MissingFrom(_, _, _, _)
\* the loop of validate_mandatory: the missing keys collected, or the exception
\* other than TypeError that leaves it
MissingFrom(data, mandatory, i, missing) ==
    IF i > Len(mandatory) THEN Ok(missing)
    ELSE LET key == mandatory[i]
             found == contains_dot(data, key)
         IN IF found.exc = "TypeError"
            THEN MissingFrom(data, mandatory, i + 1, Append(missing, key))
            ELSE IF found.exc # "none" THEN found
            ELSE IF ~found.val
            THEN MissingFrom(data, mandatory, i + 1, Append(missing, key))
            ELSE MissingFrom(data, mandatory, i + 1, missing)

validate_mandatory(data, mandatory) ==
    LET missing == MissingFrom(data, mandatory, 1, <<>>) IN
    IF missing.exc # "none" THEN missing
    ELSE IF missing.val # <<>>
    THEN [exc |-> "MissingMandatoryConfig", keys |-> missing.val]
    ELSE Ok(TRUE)

RECURSIVE Orders(_)
\* the orders in which an unordered container may hand out the elements of S
Orders(S) ==
    IF S = {} THEN {<<>>}
    ELSE UNION { {<<x>> \o q : q \in Orders(S \ {x})} : x \in S }

\* an override written as it is given, a String included
ParsedOverrideRaw(value) == value

\* the value overrides_to_value writes for an override: a string is parsed
ParsedOverride(value) == IF is_string(value) THEN parse_value(value.s) ELSE value

RECURSIVE OverridesFrom(_, _, _, _)
RECURSIVE OverridesNext(_, _, _, _)
\* the loop of overrides_to_value, visiting the paths in the given order
OverridesFrom(overrides, order, i, result) ==
    IF i > Len(order) THEN Ok(result)
    ELSE OverridesNext(overrides, order, i,
                       set_by_dot(result, order[i], ParsedOverride(overrides[order[i]]),
                                  TRUE))

\* the loop after the set_by_dot of path i: its exception leaves the loop
OverridesNext(overrides, order, i, r) ==
    IF r.exc # "none" THEN Throw(r.exc)
    ELSE OverridesFrom(overrides, order, i + 1, r.data)

\* overrides_to_value: the outcomes it may have, one for each order in which the
\* std::unordered_map may be iterated
overrides_to_value(overrides) ==
    { OverridesFrom(overrides, order, 1, EmptyObject) : order \in Orders(DOMAIN overrides) }

\* the outcome of a load that throws e, with the environment it leaves
LoadFailed(e, env) == [exc |-> e, environ |-> env]

\* Config::load(opts) is written stage by stage, each stage handing the tree merged
\* so far to the next. An outcome holds the exception, the root of the Config
\* returned, the environment left behind and, once the merge is complete, the
\* merged tree and the trees that were merged, in order.

\* the end of load: checked is what validate_mandatory did
LoadOutcome(merged, sources, env, checked) ==
    IF checked.exc = "none"
    THEN [exc |-> "none", data |-> merged, environ |-> env,
          merged |-> merged, sources |-> sources]
    ELSE IF checked.exc = "MissingMandatoryConfig"
    THEN [exc |-> checked.exc, keys |-> checked.keys, environ |-> env,
          merged |-> merged, sources |-> sources]
    ELSE [exc |-> checked.exc, environ |-> env, merged |-> merged, sources |-> sources]

\* step 6 of load
LoadValidate(opts, merged, sources, env) ==
    LoadOutcome(merged, sources, env, validate_mandatory(merged, opts.mandatory))

\* LoadOverridesMerge with the merge turned round: the overrides are the base and
\* the tree merged so far is laid over them
LoadOverridesUnderneath(opts, merged, sources, env, overrides_obj) ==
    IF overrides_obj.exc # "none" THEN LoadFailed(overrides_obj.exc, env)
    ELSE IF DOMAIN opts.overrides = {} THEN LoadValidate(opts, merged, sources, env)
    ELSE LoadValidate(opts, deep_merge(overrides_obj.val, merged),
                      Append(sources, overrides_obj.val), env)

\* step 5 of load for one outcome of overrides_to_value (not called, and its value
\* not merged, when there are no overrides)
LoadOverridesMerge(opts, merged, sources, env, overrides_obj) ==
    IF overrides_obj.exc # "none" THEN LoadFailed(overrides_obj.exc, env)
    ELSE IF DOMAIN opts.overrides = {} THEN LoadValidate(opts, merged, sources, env)
    ELSE LoadValidate(opts, deep_merge(merged, overrides_obj.val),
                      Append(sources, overrides_obj.val), env)

\* step 5 of load
LoadOverrides(opts, merged, sources, env) ==
    { LoadOverridesMerge(opts, merged, sources, env, overrides_obj)
      : overrides_obj \in IF DOMAIN opts.overrides = {} THEN {Ok(EmptyObject)}
                          ELSE overrides_to_value(opts.overrides) }

\* step 4 of load for one outcome of load_env_vars (not called, and its value not
\* merged, when there is no prefix)
LoadEnvMerge(opts, merged, sources, env, env_data) ==
    IF env_data.exc # "none" THEN {LoadFailed(env_data.exc, env)}
    ELSE LoadOverrides(opts,
                       IF opts.prefix.has THEN deep_merge(merged, env_data.val)
                       ELSE merged,
                       IF opts.prefix.has THEN Append(sources, env_data.val) ELSE sources,
                       env)

\* step 4 of load without its guard: an absent prefix is taken for the empty prefix
LoadEnvUnguarded(opts, merged, file_data, sources, env) ==
    UNION { IF env_data.exc # "none" THEN {LoadFailed(env_data.exc, env)}
            ELSE LoadOverrides(opts, deep_merge(merged, env_data.val),
                               Append(sources, env_data.val), env)
            : env_data \in load_env_vars(Some(IF opts.prefix.has THEN opts.prefix.v
                                               ELSE <<>>),
                                          merged, merged, file_data, FALSE, env) }

\* step 4 of load, env being the environment after step 3
LoadEnv(opts, merged, file_data, sources, env) ==
    UNION { LoadEnvMerge(opts, merged, sources, env, env_data)
            : env_data \in IF ~opts.prefix.has THEN {Ok(EmptyObject)}
                           ELSE load_env_vars(Some(opts.prefix.v), merged, merged,
                                              file_data, FALSE, env) }

\* step 3 of load
LoadDotenv(opts, env, disk, merged, file_data, sources) ==
    LoadEnv(opts, merged, file_data, sources,
            IF opts.load_dotenv_file
            THEN load_dotenv_file(IF opts.dotenv_path = <<>> THEN <<".", "e", "n", "v">>
                                  ELSE opts.dotenv_path,
                                  FALSE, env, disk)
            ELSE env)

\* step 2 of load once load_config_file has returned or thrown (not called, and
\* file_data left an empty object and not merged, when file_path is empty)
LoadFileMerge(opts, env, disk, merged, file) ==
    IF file.exc # "none" THEN {LoadFailed(file.exc, env)}
    ELSE LoadDotenv(opts, env, disk,
                    IF opts.file_path # <<>> THEN deep_merge(merged, file.val) ELSE merged,
                    file.val,
                    IF opts.file_path # <<>> THEN <<merged, file.val>> ELSE <<merged>>)

\* step 2 of load, merged holding the defaults
LoadFile(opts, env, disk, merged) ==
    LoadFileMerge(opts, env, disk, merged,
                  IF opts.file_path = <<>> THEN Ok(EmptyObject)
                  ELSE load_config_file(opts.file_path, merged, disk))

\* Config::load(opts): the outcomes it may have in the environment env and on the disk
load(opts, env, disk) ==
    LoadFile(opts, env, disk,
             IF is_object(opts.defaults) THEN opts.defaults ELSE EmptyObject)

\* Config::merge(const Value& other): the root it leaves, or TypeError
merge(data, other) ==
    IF ~is_object(other) THEN Throw("TypeError") ELSE Ok(deep_merge(data, other))

---------------------------------------------------------------------------
(* Inputs of the free functions.                                           *)

kA == <<"a">>
kB == <<"b">>
kC == <<"c">>

\* a value that occurs in none of the trees below
SENTINEL == VStr(<<"S", "E", "N", "T">>)

Trees ==
    { VNull,
      VInt(7),
      VStr(<<"s">>),
      VBool(TRUE),
      VArr(<<>>),
      VArr(<<VInt(1), VObj(kA :> VInt(2))>>),
      EmptyObject,
      VObj(kA :> VInt(1)),
      VObj(kA :> VObj(kB :> VInt(1))),
      VObj(kA :> VArr(<<VInt(1), VArr(<<VInt(2)>>)>>) @@ kB :> VNull),
      VObj(kA :> VObj(kB :> VObj(kC :> VInt(1))) @@ <<"0">> :> VStr(<<"s">>)),
      VObj(kA :> VObj(kB :> VNull @@ kC :> EmptyObject)) }

Paths ==
    { <<>>,
      <<".">>,
      <<"a">>,
      <<"b">>,
      <<"a", ".", "b">>,
      <<"a", ".", ".", "b", ".">>,
      <<"a", ".", "b", ".", "c">>,
      <<"a", ".", "b", ".", "c", ".", "d">>,
      <<"a", ".", "0">>,
      <<"a", ".", "1">>,
      <<"a", ".", "1", ".", "0">>,
      <<"a", ".", "2">>,
      <<"a", ".", "0", "1">>,
      <<"a", ".", "x">>,
      <<"0">>,
      <<"1">>,
      <<"1", ".", "a">>,
      <<"1", "2", "3", "4", "5", "6", "7">>,
      <<"1", "8", "4", "4", "6", "7", "4", "4", "0", "7", "3", "7", "0", "9", "5", "5", "1", "6", "1", "5">>,
      <<"1", "8", "4", "4", "6", "7", "4", "4", "0", "7", "3", "7", "0", "9", "5", "5", "1", "6", "1", "6">> }

SetValues ==
    { VNull, VInt(1), VStr(<<"s">>), EmptyObject, VObj(kA :> VInt(1)), VArr(<<VInt(1)>>) }

Defaults == { SENTINEL, VNull, VInt(1) }

NoCall == [op |-> "none"]
NoRet == [exc |-> "none"]

---------------------------------------------------------------------------
(* The dot-path functions applied to an arbitrary tree.                    *)

InitDotPath ==
    /\ data_ \in Trees
    /\ environ = <<>>
    /\ call = NoCall
    /\ ret = NoRet
    /\ nops = 0

\* get_by_dot(data_, path)
GetByDot ==
    /\ call = NoCall
    /\ \E path \in Paths :
         /\ call' = [op |-> "get_by_dot", path |-> path]
         /\ ret' = get_by_dot(data_, path)
    /\ UNCHANGED <<data_, environ, nops>>

\* get_by_dot(data_, path, default_val)
GetByDotDefault ==
    /\ call = NoCall
    /\ \E path \in Paths, default_val \in Defaults :
         /\ call' = [op |-> "get_by_dot_default", path |-> path, default_val |-> default_val]
         /\ ret' = get_by_dot_default(data_, path, default_val)
    /\ UNCHANGED <<data_, environ, nops>>

\* contains_dot(data_, path)
ContainsDot ==
    /\ call = NoCall
    /\ \E path \in Paths :
         /\ call' = [op |-> "contains_dot", path |-> path]
         /\ ret' = contains_dot(data_, path)
    /\ UNCHANGED <<data_, environ, nops>>

\* set_by_dot(data_, path, value, create_missing): data_ is changed in place
SetByDot ==
    /\ call = NoCall
    /\ \E path \in Paths, value \in SetValues, create_missing \in BOOLEAN :
         LET r == set_by_dot(data_, path, value, create_missing) IN
         /\ call' = [op |-> "set_by_dot", path |-> path, value |-> value,
                     create_missing |-> create_missing, before |-> data_]
         /\ ret' = [exc |-> r.exc]
         /\ data_' = r.data
    /\ UNCHANGED <<environ, nops>>

NextDotPath == GetByDot \/ GetByDotDefault \/ ContainsDot \/ SetByDot

SpecDotPath == InitDotPath /\ [][NextDotPath]_vars

---------------------------------------------------------------------------
(* Claims about the dot-path functions (SpecDotPath).                      *)

IsLookup == call.op \in {"get_by_dot", "get_by_dot_default", "contains_dot"}

\* the fallbacks a lookup of the last call's path may have been given
CallDefaults == IF call.op = "get_by_dot_default" THEN {call.default_val} ELSE Defaults

\* a segment of path remains when the walk stands on a node that is neither Object
\* nor Array: some proper prefix of the segments resolves to a scalar
TraversesScalar(tree, path) ==
    LET segments == split_dot_path(path) IN
    \E k \in 0..(Len(segments) - 1) :
        LET r == get_by_dot(tree, join_dot_path(SubSeq(segments, 1, k))) IN
        r.exc = "none" /\ ~is_object(r.val) /\ ~is_array(r.val)

RECURSIVE OccursIn(_, _)
\* v is the tree or one of its nodes
OccursIn(v, tree) ==
    \/ tree = v
    \/ is_object(tree) /\ \E k \in DOMAIN tree.o : OccursIn(v, tree.o[k])
    \/ is_array(tree) /\ \E i \in 1..Len(tree.a) : OccursIn(v, tree.a[i])

\* C2: after set(tree, p, v, create_missing = true), for any tree, path and value,
\* the call has not failed and the strict get(tree, p) returns v.
C2_SetGetRoundTrip ==
    (call.op = "set_by_dot" /\ call.create_missing)
        => /\ ret.exc = "none"
           /\ get_by_dot(data_, call.path) = Ok(call.value)

\* a set through a node that is not an Object, on a path of two segments or more
C2_Witness ==
    /\ call.op = "set_by_dot" /\ call.create_missing
    /\ Len(split_dot_path(call.path)) >= 2
    /\ ~is_object(call.before)
    /\ get_by_dot(data_, call.path) = Ok(call.value)

\* C3: get, get_or_default and contains throw TypeError on exactly the same inputs
\* (a segment remains at a node that is neither Object nor Array); where get throws
\* KeyError, get_or_default returns the fallback and contains returns false; where get
\* returns a value, get_or_default returns it too and contains returns true.
C3_SameTypeError ==
    IsLookup =>
        LET g == get_by_dot(data_, call.path)
            c == contains_dot(data_, call.path)
            me == ret
        IN /\ (me.exc = "TypeError") <=> TraversesScalar(data_, call.path)
           /\ (g.exc = "TypeError") <=> (c.exc = "TypeError")
           /\ \A dv \in CallDefaults :
                LET d == get_by_dot_default(data_, call.path, dv) IN
                /\ (g.exc = "TypeError") <=> (d.exc = "TypeError")
                /\ g.exc = "KeyError" => (d = Ok(dv) /\ c = Ok(FALSE))
                /\ g.exc = "none" => (d = g /\ c = Ok(TRUE))
                /\ (d.exc = "none" /\ g.exc # "none") => (g.exc = "KeyError" /\ d.val = dv)
                /\ c = Ok(FALSE) => g.exc = "KeyError"

\* a lookup that walks into a scalar below the root and throws TypeError
C3_Witness ==
    /\ call.op = "contains_dot"
    /\ ret.exc = "TypeError"
    /\ is_object(data_)
    /\ Len(split_dot_path(call.path)) >= 2

\* C4: for a path that does not traverse a scalar and a SENTINEL that occurs nowhere in
\* the tree, contains(tree, p) is false exactly when get_or_default(tree, p, SENTINEL)
\* returns SENTINEL.
C4_ContainsIffNotSentinel ==
    (/\ call.op = "get_by_dot_default"
     /\ call.default_val = SENTINEL
     /\ ~OccursIn(SENTINEL, data_)
     /\ ~TraversesScalar(data_, call.path))
        => ((contains_dot(data_, call.path) = Ok(FALSE)) <=> (ret = Ok(SENTINEL)))

\* the fallback returned for an array index that is out of range
C4_Witness ==
    /\ call.op = "get_by_dot_default"
    /\ call.default_val = SENTINEL
    /\ ret = Ok(SENTINEL)
    /\ contains_dot(data_, call.path) = Ok(FALSE)
    /\ \E k \in 0..(Len(split_dot_path(call.path)) - 1) :
         LET r == get_by_dot(data_, join_dot_path(SubSeq(split_dot_path(call.path), 1, k)))
         IN r.exc = "none" /\ is_array(r.val)

---------------------------------------------------------------------------
(* The merge functions applied to arbitrary values (SpecMerge).            *)

MergeValues ==
    { VNull,
      VInt(1),
      VStr(<<"s">>),
      VArr(<<VInt(1)>>),
      EmptyObject,
      VObj(kA :> VInt(1)),
      VObj(kA :> VNull),
      VObj(kB :> VInt(2)),
      VObj(kA :> VObj(kB :> VInt(1))),
      VObj(kA :> VObj(kB :> VInt(2) @@ kC :> VNull) @@ kB :> VInt(3)),
      VObj(kA :> VArr(<<VInt(2)>>) @@ kC :> VObj(kA :> VInt(1))) }

\* longest sequence handed to deep_merge_all
MaxSources == 3

RECURSIVE SeqsUpTo(_, _)
\* the sequences over S of length at most n
SeqsUpTo(S, n) ==
    IF n = 0 THEN {<<>>}
    ELSE LET shorter == SeqsUpTo(S, n - 1)
         IN shorter \cup {Append(q, x) : q \in shorter, x \in S}

InitMerge ==
    /\ data_ \in MergeValues
    /\ environ = <<>>
    /\ call = NoCall
    /\ ret = NoRet
    /\ nops = 0

\* deep_merge(data_, override_val)
DeepMerge ==
    /\ call = NoCall
    /\ \E override_val \in MergeValues :
         /\ call' = [op |-> "deep_merge", base |-> data_, override_val |-> override_val]
         /\ ret' = Ok(deep_merge(data_, override_val))
    /\ UNCHANGED <<data_, environ, nops>>

\* deep_merge_all(sources), sources empty or starting with data_
DeepMergeAll ==
    /\ call = NoCall
    /\ \E sources \in {<<>>} \cup {<<data_>> \o q : q \in SeqsUpTo(MergeValues, MaxSources - 1)} :
         /\ call' = [op |-> "deep_merge_all", sources |-> sources]
         /\ ret' = Ok(deep_merge_all(sources))
    /\ UNCHANGED <<data_, environ, nops>>

NextMerge == DeepMerge \/ DeepMergeAll

SpecMerge == InitMerge /\ [][NextMerge]_vars

---------------------------------------------------------------------------
(* Claims about the merge functions (SpecMerge).                           *)

C6_ObjectMerge ==
    (call.op = "deep_merge" /\ is_object(call.base) /\ is_object(call.override_val)) =>
        LET a == call.base.o
            b == call.override_val.o
        IN /\ is_object(ret.val)
           /\ DOMAIN ret.val.o = (DOMAIN a) \cup (DOMAIN b)
           /\ \A k \in (DOMAIN a) \ (DOMAIN b) : ret.val.o[k] = a[k]
           /\ \A k \in (DOMAIN b) \ (DOMAIN a) : ret.val.o[k] = b[k]
           /\ \A k \in (DOMAIN a) \cap (DOMAIN b) :
                ret.val.o[k] = IF is_object(a[k]) /\ is_object(b[k])
                               THEN deep_merge(a[k], b[k])
                               ELSE b[k]

\* C7: a Null incoming value replaces the base value like any other non-object:
\* deep_merge({k: x}, {k: null}) holds Null at k and deep_merge(object, null) is Null.
C7_NullReplaces ==
    call.op = "deep_merge" =>
        /\ (is_object(call.base) /\ is_null(call.override_val)) => is_null(ret.val)
        /\ (is_object(call.base) /\ is_object(call.override_val)) =>
              \A k \in (DOMAIN call.base.o) \cap (DOMAIN call.override_val.o) :
                  is_null(call.override_val.o[k]) => is_null(ret.val.o[k])

RECURSIVE FoldLeft(_, _)
\* deep_merge(...deep_merge(deep_merge(s1, s2), s3)..., sn) for the first n sources
FoldLeft(sources, n) ==
    IF n = 1 THEN sources[1]
    ELSE deep_merge(FoldLeft(sources, n - 1), sources[n])

\* C8: deep_merge_all of [s1..sn], n >= 1, is
\* deep_merge(...deep_merge(deep_merge(s1, s2), s3)..., sn); of three sources it is
\* deep_merge(deep_merge(a, b), c); of the empty sequence it is an empty Object.
C8_LeftFold ==
    call.op = "deep_merge_all" =>
        LET s == call.sources IN
        /\ Len(s) = 0 => ret.val = EmptyObject
        /\ Len(s) >= 1 => ret.val = FoldLeft(s, Len(s))
        /\ Len(s) = 3 => ret.val = deep_merge(deep_merge(s[1], s[2]), s[3])

\* three sources whose merge depends on the grouping: a non-object in the middle
C8_Witness ==
    /\ call.op = "deep_merge_all"
    /\ Len(call.sources) = 3
    /\ ret.val # deep_merge(call.sources[1], deep_merge(call.sources[2], call.sources[3]))
    /\ ret.val = deep_merge(deep_merge(call.sources[1], call.sources[2]), call.sources[3])

---------------------------------------------------------------------------
(* The life of a Config: it is constructed, loaded or default-constructed,   *)
(* and then read and changed through its methods.                           *)

\* data_ while no Config exists
NoConfig == [t |-> "none"]

\* The regular files on the disk
Disk ==
    (    <<"c", ".", "j", "s", "o", "n">> :>
         [text |-> <<"{", "\"", "d", "b", "\"", ":", " ", "{", "\"", "h", "o", "s", "t",
                "\"", ":", " ", "\"", "f", "i", "l", "e", "h", "o", "s", "t", "\"",
                ",", " ", "\"", "p", "o", "o", "l", "\"", ":", " ", "4", "}", ",",
                " ", "\"", "d", "e", "b", "u", "g", "\"", ":", " ", "t", "r", "u",
                "e", "}">>]
      @@ <<"a", "r", "r", ".", "j", "s", "o", "n">> :>
         [text |-> <<"[", "1", ",", " ", "2", "]">>]
      @@ <<"n", "u", "l", "l", ".", "j", "s", "o", "n">> :>
         [text |-> <<"n", "u", "l", "l", "\n">>]
      @@ <<"b", "a", "d", ".", "j", "s", "o", "n">> :>
         [text |-> <<"{", "\"", "d", "b", "\"", ":", " ">>]
      @@ <<"e", "t", "c", "/", "U", "P", ".", "J", "S", "O", "N">> :>
         [text |-> <<"{", "\"", "n", "a", "m", "e", "\"", ":", " ", "\"", "u", "p", "p", "e",
        "r", "\"", "}">>]
      @@ <<"c", ".", "t", "o", "m", "l">> :>
         [text |-> <<>>,
         toml |-> Ok(VObj(<<"d", "b">> :> VObj(<<"h", "o", "s", "t">> :> VStr(<<"t", "o", "m", "l", "h", "o", "s", "t">>) @@ <<"n", "a", "m", "e">> :> VStr(<<"d", "b", "n", "a", "m", "e">>)) @@ <<"s", "e", "r", "v", "e", "r">> :> VObj(<<"d", "e", "b", "u", "g">> :> VBool(TRUE) @@ <<"n", "a", "m", "e">> :> VStr(<<"s", "r", "v">>)) @@ <<"t", "i", "t", "l", "e">> :> VStr(<<"t">>)))]
      @@ <<"b", "a", "d", ".", "t", "o", "m", "l">> :>
         [text |-> <<>>, toml |-> Throw("parse_error")]
      @@ <<"c", ".", "y", "a", "m", "l">> :>
         [text |-> <<"d", "b", ":", " ", "1", "\n">>]
      @@ <<".", "e", "n", "v">> :>
         [text |-> <<"#", " ", "s", "e", "e", "d", "e", "d", "\n", "A", "P", "P", "_",
                "D", "B", "_", "H", "O", "S", "T", "=", "d", "o", "t", "e", "n", "v",
                "h", "o", "s", "t", "\n", "e", "x", "p", "o", "r", "t", " ", "A",
                "P", "P", "_", "N", "A", "M", "E", "=", "\"", "f", "r", "o", "m",
                " ", "d", "o", "t", "e", "n", "v", "\"", " ", "#", " ", "c", "\n">>]
      @@ <<"a", "l", "t", ".", "e", "n", "v">> :>
         [text |-> <<"A", "P", "P", "_", "D", "B", "_", "P", "O", "R", "T", " ", "=",
                " ", "'", "7", "0", "0", "0", "'", "\n", "=", "x", "\n", "n", "o",
                "e", "q", "u", "a", "l", "s", "\n", "A", "P", "P", "_", "E", "X",
                "T", "R", "A", "=", "a", "#", "b", "\n">>] )

\* The process environments a run may start in
Environments ==
    { <<>>,
      <<<<<<"P", "A", "T", "H">>, <<"/", "b", "i", "n">>>>,
         <<<<"A", "P", "P", "_", "D", "B", "_", "H", "O", "S", "T">>, <<"e", "n", "v", "h", "o", "s", "t">>>>,
         <<<<"A", "P", "P", "_", "D", "E", "B", "U", "G">>, <<"t", "r", "u", "e">>>>,
         <<<<"A", "P", "P", "_", "D", "B", "_", "P", "O", "R", "T">>, <<"6", "0", "0", "0">>>>,
         <<<<"O", "T", "H", "E", "R">>, <<"1">>>>>>,
      <<<<<<"A", "P", "P", "_", "F", "E", "A", "T", "U", "R", "E", "_", "F", "L", "A", "G", "S", "_", "B", "E", "T", "A">>, <<"t", "r", "u", "e">>>>,
         <<<<"A", "P", "P", "_", "_">>, <<"5">>>>,
         <<<<"A", "P", "P", "_", "D", "B">>, <<"7">>>>,
         <<<<"a", "p", "p", "_", "n", "a", "m", "e">>, <<"l", "o", "w">>>>,
         <<<<"A", "P", "P", "_", "A", "_", "_", "B">>, <<"1">>>>>>,
      <<<<<<"A", "P", "P", "_", "D", "B", "_", "H", "O", "S", "T">>, <<"n", "u", "l", "l">>>>,
         <<<<"A", "P", "P", "_", "D", "E", "B", "U", "G">>, <<"{", "}">>>>,
         <<<<"A", "P", "P", "_", "F", "E", "A", "T", "U", "R", "E", "S", "_", "N", "E", "W", "_", "_", "U", "I">>, <<"t", "r", "u", "e">>>>,
         <<<<"A", "p", "p", "_", "S", "e", "r", "v", "e", "r", "_", "P", "o", "r", "t">>, <<"8", "0">>>>,
         <<<<"O", "T", "H", "E", "R", "_", "D", "B", "_", "H", "O", "S", "T">>, <<"o">>>>>> }

\* LoadOptions::defaults
LoadDefaults ==
    { EmptyObject,
      VObj(<<"d", "b">> :> VObj(<<"h", "o", "s", "t">> :> VStr(<<"l", "o", "c", "a", "l", "h", "o", "s", "t">>) @@ <<"p", "o", "r", "t">> :> VInt(5432)) @@ <<"d", "e", "b", "u", "g">> :> VBool(FALSE) @@ <<"n", "a", "m", "e">> :> VStr(<<"a", "p", "p">>)),
      VInt(7),
      VObj(<<"d", "b">> :> VStr(<<"f", "l", "a", "t">>) @@ <<"f", "e", "a", "t", "u", "r", "e", "_", "f", "l", "a", "g", "s">> :> VObj(<<"b", "e", "t", "a">> :> VBool(FALSE)) @@ <<"a", "r", "r">> :> VArr(<<VInt(1), VInt(2)>>)),
      VObj(<<"f", "e", "a", "t", "u", "r", "e", "s">> :> VObj(<<"n", "e", "w", "_", "u", "i">> :> VBool(FALSE) @@ <<"b", "e", "t", "a">> :> VBool(FALSE)) @@ <<"s", "e", "r", "v", "e", "r">> :> VObj(<<"p", "o", "r", "t">> :> VInt(3000)) @@ <<"d", "b">> :> VObj(<<"h", "o", "s", "t">> :> VStr(<<"d", "4">>)) @@ <<"d", "e", "b", "u", "g">> :> VBool(FALSE)) }

\* LoadOptions::file_path
FilePaths ==
    { <<>>,
      <<"c", ".", "j", "s", "o", "n">>,
      <<"a", "r", "r", ".", "j", "s", "o", "n">>,
      <<"n", "u", "l", "l", ".", "j", "s", "o", "n">>,
      <<"b", "a", "d", ".", "j", "s", "o", "n">>,
      <<"e", "t", "c", "/", "U", "P", ".", "J", "S", "O", "N">>,
      <<"c", ".", "t", "o", "m", "l">>,
      <<"b", "a", "d", ".", "t", "o", "m", "l">>,
      <<"c", ".", "y", "a", "m", "l">>,
      <<"m", "i", "s", "s", "i", "n", "g", ".", "j", "s", "o", "n">> }

\* LoadOptions::prefix
Prefixes ==
    { NullOpt,
      Some(<<>>),
      Some(<<"A", "P", "P">>),
      Some(<<"a", "p", "p", "_">>) }

\* LoadOptions::dotenv_path
DotenvPaths ==
    { <<>>,
      <<"a", "l", "t", ".", "e", "n", "v">>,
      <<"n", "o", "n", "e", ".", "e", "n", "v">> }

\* LoadOptions::overrides, a map from path to value
Overrides ==
    { <<>>,
      (<<"d", "b", ".", "h", "o", "s", "t">> :> VStr(<<"o", "v", "r">>)),
      (<<"d", "e", "b", "u", "g">> :> VNull),
      (<<>> :> VInt(5)),
      (<<"d", "b">> :> VInt(5)),
      (<<"d", "b", ".", "p", "o", "r", "t">> :> VStr(<<"8", "0", "8", "0">>) @@ <<"d", "b">> :> VObj(<<"x">> :> VInt(1))),
      (<<"n", "a", "m", "e">> :> VStr(<<"[", "1", ",", " ", "2", "]">>)),
      (<<"d", "b", ".", "p", "o", "r", "t">> :> VStr(<<"5", "4", "3", "3">>) @@ <<"d", "e", "b", "u", "g">> :> VBool(TRUE)) }

\* LoadOptions::mandatory
Mandatory ==
    { <<>>,
      <<<<"d", "b", ".", "h", "o", "s", "t">>>>,
      <<<<"a", ".", "b">>, <<"c", ".", "d">>>>,
      <<<<"d", "b", ".", "h", "o", "s", "t", ".", "x">>, <<"z", "z">>, <<"d", "b", ".", "p", "o", "r", "t">>>>,
      <<<<"a", "r", "r", ".", "1", "8", "4", "4", "6", "7", "4", "4", "0", "7", "3", "7", "0", "9", "5", "5", "1", "6", "1", "6">>>>,
      <<<<"z", "z">>, <<"a", "r", "r", ".", "1">>>> }

\* The LoadOptions of a default-initialised struct but for the defaults
BaseOptions(defaults) ==
    [defaults |-> defaults, file_path |-> <<>>, prefix |-> NullOpt,
     load_dotenv_file |-> TRUE, dotenv_path |-> <<>>, overrides |-> <<>>,
     mandatory |-> <<>>]

\* The LoadOptions tried: files with overrides, environments with files and .env
\* files, mandatory keys with overrides and prefixes, and all sources at once
LoadOptions ==
    LET base(d) == BaseOptions(d) IN
    { [base(d) EXCEPT !.file_path = f, !.overrides = o, !.load_dotenv_file = FALSE]
        : d \in LoadDefaults, f \in FilePaths, o \in Overrides }
    \cup
    { [base(d) EXCEPT !.file_path = f, !.prefix = p, !.load_dotenv_file = l,
                      !.dotenv_path = e]
        : d \in LoadDefaults, p \in Prefixes, l \in BOOLEAN, e \in DotenvPaths,
          f \in {<<>>, <<"c", ".", "j", "s", "o", "n">>, <<"c", ".", "t", "o", "m", "l">>} }
    \cup
    { [base(d) EXCEPT !.overrides = o, !.mandatory = m, !.prefix = p]
        : d \in LoadDefaults, o \in Overrides, m \in Mandatory,
          p \in {NullOpt, Some(<<"A", "P", "P">>)} }
    \cup
    { [base(d) EXCEPT !.file_path = f, !.prefix = Some(<<"A", "P", "P">>),
                      !.overrides = o]
        : d \in LoadDefaults, o \in Overrides,
          f \in {<<"c", ".", "j", "s", "o", "n">>, <<"c", ".", "t", "o", "m", "l">>} }

\* Arguments of the constructor, of set, get and contains, and of merge
ConstructValues == { VInt(7), VArr(<<VInt(1)>>), EmptyObject, VObj(<<"d", "b">> :> VObj(<<"h", "o", "s", "t">> :> VStr(<<"h">>)) @@ <<"a", "r", "r">> :> VArr(<<VInt(1), VInt(2)>>)) }

ConfigPaths ==
    { <<>>, <<"d", "b", ".", "h", "o", "s", "t">>, <<"d", "b", ".", "h", "o", "s", "t", ".", "x">>, <<"a", "r", "r", ".", "0">> }

ConfigValues == { VNull, VStr(<<"v">>), VObj(<<"a">> :> VInt(1)) }

MergeOthers == { VInt(3), EmptyObject, VObj(<<"d", "b">> :> VObj(<<"h", "o", "s", "t">> :> VStr(<<"m">>))), VObj(<<"a">> :> VNull) }

\* Roots of the other Config of merge(const Config&): what a Config may hold
OtherConfigs == { EmptyObject, VObj(<<"d", "b">> :> VInt(5)), VStr(<<"v">>) }

\* The number of method calls made on a Config after it exists
MaxOps == 1

Init ==
    /\ data_ = NoConfig
    /\ environ \in Environments
    /\ call = NoCall
    /\ ret = NoRet
    /\ nops = 0

\* Config cfg;
DefaultConstruct ==
    /\ data_ = NoConfig
    /\ call.op # "load"
    /\ data_' = EmptyObject
    /\ call' = [op |-> "Config"]
    /\ ret' = NoRet
    /\ UNCHANGED <<environ, nops>>

\* Config cfg(data);
Construct ==
    /\ data_ = NoConfig
    /\ call.op # "load"
    /\ \E data \in ConstructValues :
         LET r == Config(data) IN
         /\ data_' = IF r.exc = "none" THEN r.val ELSE NoConfig
         /\ call' = [op |-> "Config", data |-> data]
         /\ ret' = [exc |-> r.exc]
    /\ UNCHANGED <<environ, nops>>

\* Config cfg = Config::load(opts);
Load ==
    /\ data_ = NoConfig
    /\ call = NoCall
    /\ \E opts \in LoadOptions :
         \E outcome \in load(opts, environ, Disk) :
           /\ data_' = IF outcome.exc = "none" THEN outcome.data ELSE NoConfig
           /\ environ' = outcome.environ
           /\ call' = [op |-> "load", opts |-> opts, environ |-> environ]
           /\ ret' = outcome
    /\ UNCHANGED nops

\* cfg.get(path)
Get ==
    /\ data_ # NoConfig
    /\ nops < MaxOps
    /\ \E path \in ConfigPaths :
         /\ call' = [op |-> "get", path |-> path]
         /\ ret' = get_by_dot(data_, path)
    /\ nops' = nops + 1
    /\ UNCHANGED <<data_, environ>>

\* cfg.contains(path)
Contains ==
    /\ data_ # NoConfig
    /\ nops < MaxOps
    /\ \E path \in ConfigPaths :
         /\ call' = [op |-> "contains", path |-> path]
         /\ ret' = contains_dot(data_, path)
    /\ nops' = nops + 1
    /\ UNCHANGED <<data_, environ>>

\* cfg.set(path, value, create_missing)
Set ==
    /\ data_ # NoConfig
    /\ nops < MaxOps
    /\ \E path \in ConfigPaths, value \in ConfigValues, create_missing \in BOOLEAN :
         LET r == set_by_dot(data_, path, value, create_missing) IN
         /\ data_' = r.data
         /\ call' = [op |-> "set", path |-> path, value |-> value,
                     create_missing |-> create_missing, before |-> data_]
         /\ ret' = [exc |-> r.exc]
    /\ nops' = nops + 1
    /\ UNCHANGED environ

\* cfg.merge(other) with a Value
MergeValue ==
    /\ data_ # NoConfig
    /\ nops < MaxOps
    /\ \E other \in MergeOthers :
         LET r == merge(data_, other) IN
         /\ data_' = IF r.exc = "none" THEN r.val ELSE data_
         /\ call' = [op |-> "merge", other |-> other, before |-> data_]
         /\ ret' = [exc |-> r.exc]
    /\ nops' = nops + 1
    /\ UNCHANGED environ

\* cfg.merge(other) with a Config
MergeConfig ==
    /\ data_ # NoConfig
    /\ nops < MaxOps
    /\ \E other \in OtherConfigs :
         /\ data_' = deep_merge(data_, other)
         /\ call' = [op |-> "merge_config", other |-> other, before |-> data_]
         /\ ret' = NoRet
    /\ nops' = nops + 1
    /\ UNCHANGED environ

Next ==
    \/ DefaultConstruct
    \/ Construct
    \/ Load
    \/ Get
    \/ Contains
    \/ Set
    \/ MergeValue
    \/ MergeConfig

Spec == Init /\ [][Next]_vars

---------------------------------------------------------------------------
(* Claims about the Config (Spec).                                         *)

RECURSIVE PathsOf(_, _)
\* the dot-paths of the nodes of a tree that are reached through objects only
PathsOf(node, prefix) ==
    IF ~is_object(node) THEN {}
    ELSE UNION { LET path == IF prefix = <<>> THEN k ELSE prefix \o <<".">> \o k
                 IN {path} \cup PathsOf(node.o[k], path) : k \in DOMAIN node.o }

\* the source holds a value at the path
DefinedAt(source, path) == get_by_dot(source, path).exc = "none"

\* the source holds a value other than Null or an Object at the path
LeafAt(source, path) ==
    /\ DefinedAt(source, path)
    /\ ~is_null(get_by_dot(source, path).val)
    /\ ~is_object(get_by_dot(source, path).val)

\* the path, the paths of its ancestors and the empty path
PrefixesOf(path) ==
    { join_dot_path(SubSeq(split_dot_path(path), 1, n))
      : n \in 0..Len(split_dot_path(path)) }

\* the source writes over what earlier sources hold at the path: it holds a value
\* other than Null there, or a value other than Null or an Object above it
Shadows(source, path) ==
    \E q \in PrefixesOf(path) :
        /\ DefinedAt(source, q)
        /\ ~is_null(get_by_dot(source, q).val)
        /\ q = path \/ ~is_object(get_by_dot(source, q).val)

\* a load that returned a Config
Loaded == call.op = "load" /\ ret.exc = "none"

LoadMerged == call.op = "load" /\ "merged" \in DOMAIN ret

\* the mandatory path is not contained in the merged tree
NotContained(key) == contains_dot(ret.merged, key) # Ok(TRUE)

\* C9: load fails with MissingMandatoryConfig exactly when a mandatory path is not
\* contained in the merged tree; the keys of the error are the missing mandatory
\* paths, all of them in the order given; a load that succeeds returns a Config
\* that contains every mandatory path.
C9_MissingMandatory ==
    LoadMerged =>
      LET missing == SelectSeq(call.opts.mandatory, NotContained) IN
      /\ (ret.exc = "MissingMandatoryConfig") <=> (missing # <<>>)
      /\ ret.exc = "MissingMandatoryConfig" => ret.keys = missing
      /\ ret.exc = "none" =>
           \A n \in 1..Len(call.opts.mandatory) :
             contains_dot(data_, call.opts.mandatory[n]) = Ok(TRUE)

\* C10: the root of a Config is an Object in every state in which a Config exists.
C10_RootIsObject == data_ # NoConfig => is_object(data_)


\* a load all of whose sources were merged, the environment among them
EnvMerged == LoadMerged /\ call.opts.prefix.has

\* the tree load_config_file returned to load, an empty object without a file
FileData == IF call.opts.file_path # <<>> THEN ret.sources[2] ELSE EmptyObject

\* the base tree of a load: the defaults merged with the file
BaseTree == deep_merge(ret.sources[1], FileData)

\* the tree made of the environment variables
EnvSource == ret.sources[IF call.opts.file_path # <<>> THEN 3 ELSE 2]

\* the variables of the environment after the .env file was read that address the
\* path under the prefix: P_S1_..._SN in any letter case
Addressing(prefix, path) ==
    { n \in 1..Len(ret.environ) :
        to_upper(ret.environ[n][1]) = to_upper(prefix \o <<"_">> \o replace_all(path, <<".">>, <<"_">>)) }

\* the path is made of lowercase segments without underscores and ends at a leaf
\* of the tree
PlainLeaf(tree, path) ==
    /\ ~is_object(get_by_dot(tree, path).val)
    /\ \A i \in 1..Len(path) : path[i] # "_" /\ tolower(path[i]) = path[i]

\* the variables whose names start with the prefix followed by an underscore
WithPrefix(env, prefix) ==
    LET starts(entry) == starts_with_icase(entry[1], prefix \o <<"_">>)
    IN SelectSeq(env, starts)

\* one of the two sequences of segments starts with the other
Along(s, u) ==
    \/ Len(s) <= Len(u) /\ SubSeq(u, 1, Len(s)) = s
    \/ Len(u) <= Len(s) /\ SubSeq(s, 1, Len(u)) = u

\* the variables of the environment with the prefix whose names lead to the path,
\* to a path above it or to a path below it
Touching(prefix, path) ==
    { n \in 1..Len(ret.environ) :
        /\ starts_with_icase(ret.environ[n][1], prefix \o <<"_">>)
        /\ Along(split_dot_path(transform_env_name(strip_prefix(ret.environ[n][1], prefix))),
                 split_dot_path(path)) }

\* C13: with a non-empty prefix P and a base tree that holds the leaf path
\* s1.s2...sn of lowercase segments without underscores, an environment variable
\* named P_S1_S2_..._SN (in any letter case), its value being x, makes load
\* resolve the path to parse_value(x) (no override being given, and no other
\* variable leading to the path, above it or below it); and the variables that do
\* not start with P_ contribute nothing to the tree made of the environment.
C13_EnvVarResolves ==
    ( EnvMerged /\ call.opts.prefix.v # <<>> ) =>
      /\ ( ret.exc = "none" /\ DOMAIN call.opts.overrides = {} ) =>
           \A p \in PathsOf(BaseTree, <<>>) :
             ( /\ PlainLeaf(BaseTree, p)
               /\ Cardinality(Touching(call.opts.prefix.v, p)) = 1 )
             => \A n \in Addressing(call.opts.prefix.v, p) :
                  get_by_dot(data_, p) = Ok(parse_value(ret.environ[n][2]))
      /\ Ok(EnvSource) \in load_env_vars(call.opts.prefix, BaseTree, BaseTree, FileData,
                                         FALSE,
                                         WithPrefix(ret.environ, call.opts.prefix.v))

\* the environment without its variables of the given name
Without(env, name) ==
    LET other(entry) == entry[1] # name IN SelectSeq(env, other)

\* the paths of the trees that load_env_vars may make of the environment
EnvPaths(env) ==
    UNION { PathsOf(made.val, <<>>)
            : made \in { r \in load_env_vars(call.opts.prefix, BaseTree, BaseTree,
                                             FileData, FALSE, env) : r.exc = "none" } }

\* C14: in a load with a non-empty prefix P and the base leaf path
\* features.new_ui, the variable P_FEATURES_NEW__UI=true resolves features.new_ui
\* to the Bool true and adds no key to the configuration: every path of the result
\* is a path of the base tree or of what the other variables give.
C14_DoubleUnderscoreKey ==
    ( /\ EnvMerged
      /\ ret.exc = "none"
      /\ call.opts.prefix.v # <<>>
      /\ DOMAIN call.opts.overrides = {}
      /\ <<"f", "e", "a", "t", "u", "r", "e", "s", ".", "n", "e", "w", "_", "u", "i">> \in PathsOf(BaseTree, <<>>)
      /\ \E n \in 1..Len(ret.environ) :
           ret.environ[n] = <<call.opts.prefix.v \o <<"_", "F", "E", "A", "T", "U", "R", "E", "S", "_", "N", "E", "W", "_", "_", "U", "I">>, <<"t", "r", "u", "e">>>> )
    => /\ get_by_dot(data_, <<"f", "e", "a", "t", "u", "r", "e", "s", ".", "n", "e", "w", "_", "u", "i">>) = Ok(VBool(TRUE))
       /\ PathsOf(data_, <<>>) \subseteq
            ( PathsOf(BaseTree, <<>>)
              \cup EnvPaths(Without(ret.environ,
                                    call.opts.prefix.v \o <<"_", "F", "E", "A", "T", "U", "R", "E", "S", "_", "N", "E", "W", "_", "_", "U", "I">>)) )

\* what a load returns to its caller: the exception, and the root of the Config
\* when there is none
Returned(outcome) ==
    IF outcome.exc = "none" THEN [exc |-> "none", data |-> outcome.data]
    ELSE IF "keys" \in DOMAIN outcome THEN [exc |-> outcome.exc, keys |-> outcome.keys]
    ELSE [exc |-> outcome.exc]

\* what a load with the options may return in the environment
LoadResults(opts, env) == { Returned(outcome) : outcome \in load(opts, env, Disk) }

\* C16: without a prefix the environment has no influence on load: with the same
\* options and files, load returns the same in any two environments.
C16_NoPrefixNoEnvironment ==
    ( call.op = "load" /\ ~call.opts.prefix.has ) =>
      \A other \in Environments :
        LoadResults(call.opts, other) = LoadResults(call.opts, call.environ)

\* a load without a prefix in an environment that changes the result as soon as
\* the prefix APP is given
C16_Witness ==
    /\ Loaded
    /\ ~call.opts.prefix.has
    /\ \E n \in 1..Len(call.environ) : call.environ[n][1] = <<"A", "P", "P", "_", "D", "B", "_", "H", "O", "S", "T">>
    /\ get_by_dot(data_, <<"d", "b", ".", "h", "o", "s", "t">>) = Ok(VStr(<<"l", "o", "c", "a", "l", "h", "o", "s", "t">>))
    /\ Returned(ret) \notin LoadResults([call.opts EXCEPT !.prefix = Some(<<"A", "P", "P">>)],
                                        call.environ)

\* C18: in load the candidate paths that match no base path are treated according
\* to the prefix and to whether dotenv loading is enabled (discarded, kept dotted,
\* or joined by underscores to a flat key): the tree made of the environment is
\* the one load_env_vars makes when it is told whether dotenv loading is enabled.
C18_FallbackByDotenv ==
    EnvMerged =>
      Ok(EnvSource) \in load_env_vars(call.opts.prefix, BaseTree, BaseTree, FileData,
                                      call.opts.load_dotenv_file, ret.environ)

\* the tree made of the overrides
OverridesSource == ret.sources[Len(ret.sources)]

\* the two paths differ and one leads through the other
Nested(path, other) ==
    /\ path # other
    /\ \/ other \in PrefixesOf(path)
       \/ path \in PrefixesOf(other)

\* C19: in load an override whose value is a String is passed through parse_value
\* before it is written at its path, and any other value is written unchanged:
\* the tree of the overrides holds that value at the path unless another override
\* is written at a path above or below it, and the loaded Config resolves the path
\* to it when it is neither Null nor an Object.
C19_OverridesParsed ==
    ( LoadMerged /\ DOMAIN call.opts.overrides # {} ) =>
      \A path \in DOMAIN call.opts.overrides :
        LET value == call.opts.overrides[path]
            written == IF is_string(value) THEN parse_value(value.s) ELSE value
        IN ( \A other \in DOMAIN call.opts.overrides : ~Nested(path, other) )
           => /\ get_by_dot(OverridesSource, path) = Ok(written)
              /\ ( ret.exc = "none" /\ ~is_null(written) /\ ~is_object(written) )
                 => get_by_dot(data_, path) = Ok(written)

\* the override {"db.port": "5433"} resolves db.port to the integer 5433
C19_Witness ==
    /\ Loaded
    /\ <<"d", "b", ".", "p", "o", "r", "t">> \in DOMAIN call.opts.overrides
    /\ call.opts.overrides[<<"d", "b", ".", "p", "o", "r", "t">>] = VStr(<<"5", "4", "3", "3">>)
    /\ get_by_dot(data_, <<"d", "b", ".", "p", "o", "r", "t">>) = Ok(VInt(5433))
---------------------------------------------------------------------------
(* The functions of the environment mapper applied to arbitrary names,      *)
(* prefixes, base trees and environments (SpecEnvMapper).                   *)

\* Names of variables, with and without a prefix
EnvNames ==
    { <<"F", "E", "A", "T", "U", "R", "E", "_", "F", "L", "A", "G", "S", "_", "_", "B", "E", "T", "A">>,
      <<"U", "S", "E", "R", "_", "_", "L", "O", "G", "I", "N", "_", "A", "T", "T", "E", "M", "P", "T", "S">>,
      <<"A", "_", "_", "B", "_", "_", "C", "_", "D">>,
      <<"F", "E", "A", "T", "U", "R", "E", "_", "F", "L", "A", "G", "S", "_", "_", "B", "E", "T", "A", "_", "F", "E", "A", "T", "U", "R", "E">>,
      <<"_", "_", "_">>,
      <<"_", "_", "_", "_">>,
      <<"_", "_", "V", "A", "L", "U", "E">>,
      <<"_", "V", "A", "L", "U", "E">>,
      <<"V", "A", "L", "U", "E", "_">>,
      <<"D", "A", "T", "A", "B", "A", "S", "E", "_", "H", "O", "S", "T">>,
      <<"D", "a", "t", "a", "b", "a", "s", "e", "_", "H", "o", "s", "t">>,
      <<"d", "a", "t", "a", "b", "a", "s", "e", "_", "h", "o", "s", "t">>,
      <<"S", "I", "M", "P", "L", "E">>,
      <<>>,
      <<"A", "_", "B", "_", "C">>,
      <<"A", "_", "_", "_", "B">>,
      <<"M", "Y", "A", "P", "P", "_", "V", "A", "L", "U", "E">>,
      <<"M", "Y", "A", "P", "P", "_", "D", "A", "T", "A", "B", "A", "S", "E", "_", "H", "O", "S", "T">>,
      <<"m", "y", "a", "p", "p", "_", "v", "a", "l", "u", "e">>,
      <<"O", "T", "H", "E", "R", "_", "V", "A", "R">>,
      <<"M", "Y", "A", "P", "P">>,
      <<"M", "Y", "A", "P", "P", "_", "_", "X">>,
      <<"a", ".", "b">>,
      <<"X", "-", "1">> }

\* Prefixes as strings
PrefixStrings ==
    { <<>>,
      <<"M", "Y", "A", "P", "P">>,
      <<"M", "Y", "A", "P", "P", "_">>,
      <<"m", "y", "a", "p", "p">>,
      <<"M", "Y", "A", "P", "P", "_", "_">> }

\* Prefixes as optionals
EnvPrefixes ==
    { NullOpt,
      Some(<<>>),
      Some(<<"M", "Y", "A", "P", "P">>),
      Some(<<"M", "Y", "A", "P", "P", "_">>) }

\* Base trees: the defaults the candidates are matched against
BaseTrees ==
    { EmptyObject,
      VObj(<<"d", "a", "t", "a", "b", "a", "s", "e">> :> VObj(<<"h", "o", "s", "t">> :> VStr(<<"x">>) @@ <<"p", "o", "r", "t">> :> VInt(1)) @@ <<"d", "e", "b", "u", "g">> :> VBool(FALSE)),
      VObj(<<"d", "a", "t", "a", "b", "a", "s", "e">> :> VObj(<<"h", "o", "s", "t">> :> VStr(<<"x">>) @@ <<"p", "o", "r", "t">> :> VInt(1)) @@ <<"f", "e", "a", "t", "u", "r", "e", "_", "f", "l", "a", "g", "s">> :> VObj(<<"b", "e", "t", "a", "_", "f", "e", "a", "t", "u", "r", "e">> :> VBool(FALSE)) @@ <<"d", "e", "b", "u", "g">> :> VBool(FALSE)),
      VObj(<<"f", "e", "a", "t", "u", "r", "e", "s">> :> VObj(<<"n", "e", "w", "_", "u", "i">> :> VBool(FALSE))),
      VObj(<<"a">> :> VObj(<<"b", "_", "c">> :> VInt(1)) @@ <<"a", "_", "b">> :> VObj(<<"c">> :> VInt(2))),
      VObj(<<"a">> :> VObj(<<"b">> :> VObj(<<"c">> :> VInt(1))) @@ <<"a", "_", "b">> :> VObj(<<"c">> :> VInt(2))),
      VObj(<<"a", "_", "b">> :> VObj(<<"c">> :> VObj(<<"d">> :> VInt(1)) @@ <<"c", "_", "d">> :> VInt(1)) @@ <<"x", "_", "y", "_", "z">> :> VInt(3)),
      VObj(<<"a">> :> VObj(<<"b", "_", "c">> :> VInt(1)) @@ <<"a", "_", "b">> :> VObj(<<"c">> :> VInt(2)) @@ <<"a", "_", "b", "_", "c">> :> VInt(3)) }

\* Environments, and lists of variables handed to env_vars_to_nested
EnvVarLists ==
    { <<>>,
      <<<<<<"M", "Y", "A", "P", "P", "_", "F", "E", "A", "T", "U", "R", "E", "_", "F", "L", "A", "G", "S", "_", "_", "B", "E", "T", "A">>, <<"t", "r", "u", "e">>>>>>,
      <<<<<<"M", "Y", "A", "P", "P", "_", "D", "A", "T", "A", "B", "A", "S", "E", "_", "H", "O", "S", "T">>, <<"l", "o", "c", "a", "l", "h", "o", "s", "t">>>>,
         <<<<"M", "Y", "A", "P", "P", "_", "D", "A", "T", "A", "B", "A", "S", "E", "_", "P", "O", "R", "T">>, <<"5", "4", "3", "2">>>>>>,
      <<<<<<"m", "y", "a", "p", "p", "_", "D", "a", "t", "a", "b", "a", "s", "e", "_", "H", "o", "s", "t">>, <<"y">>>>,
         <<<<"O", "T", "H", "E", "R", "_", "D", "A", "T", "A", "B", "A", "S", "E", "_", "H", "O", "S", "T">>, <<"z">>>>,
         <<<<"P", "A", "T", "H">>, <<"/", "b", "i", "n">>>>,
         <<<<"M", "Y", "A", "P", "P">>, <<"q">>>>>>,
      <<<<<<"M", "Y", "A", "P", "P", "_", "F", "E", "A", "T", "U", "R", "E", "S", "_", "N", "E", "W", "_", "_", "U", "I">>, <<"t", "r", "u", "e">>>>,
         <<<<"M", "Y", "A", "P", "P", "_", "_", "D", "E", "B", "U", "G">>, <<"t", "r", "u", "e">>>>>>,
      <<<<<<"M", "Y", "A", "P", "P", "_", "A", "_", "B", "_", "C">>, <<"7">>>>,
         <<<<"M", "Y", "A", "P", "P", "_", "V", "A", "L", "U", "E">>, <<"[", "1", ",", " ", "2", "]">>>>,
         <<<<"M", "Y", "A", "P", "P", "_", "X", "_", "Y", "_", "Z">>, <<"n", "u", "l", "l">>>>>>,
      <<<<<<"M", "Y", "A", "P", "P", "_", "_", "D", "A", "T", "A", "B", "A", "S", "E", "_", "H", "O", "S", "T">>, <<"u", "n", "d", "e", "r">>>>,
         <<<<"M", "Y", "A", "P", "P", "_", "F", "E", "A", "T", "U", "R", "E", "_", "F", "L", "A", "G", "S", "_", "B", "E", "T", "A", "_", "F", "E", "A", "T", "U", "R", "E">>, <<"t", "r", "u", "e">>>>>>,
      <<<<<<"M", "Y", "A", "P", "P", "_", "D", "A", "T", "A", "B", "A", "S", "E", "_", "H", "O", "S", "T">>, <<"l", "o", "c", "a", "l", "h", "o", "s", "t">>>>,
         <<<<"M", "Y", "A", "P", "P", "_", "_">>, <<"7">>>>,
         <<<<"M", "Y", "A", "P", "P", "_", "D", "E", "B", "U", "G">>, <<"t", "r", "u", "e">>>>>>,
      <<<<<<"M", "Y", "A", "P", "P", "_", "D", "E", "B", "U", "G">>, <<"t", "r", "u", "e">>>>,
         <<<<"M", "Y", "A", "P", "P", "_", "A">>, <<"1">>>>,
         <<<<"M", "Y", "A", "P", "P", "_", "A", "_", "B">>, <<"2">>>>>>,
      <<<<<<"M", "Y", "A", "P", "P", "_", "A", "_", "B">>, <<"2">>>>,
         <<<<"M", "Y", "A", "P", "P", "_", "A">>, <<"1">>>>,
         <<<<"M", "Y", "A", "P", "P", "_", "_">>, <<"{", "\"", "x", "\"", ":", " ", "1", "}">>>>>> }

\* Trees handed to remap_and_flatten_env_data besides the ones env_vars_to_nested makes
NestedTrees ==
    { VObj(<<"a">> :> VObj(<<"b">> :> VInt(1)) @@ <<"a", "_", "b">> :> VInt(2)),
      VObj(<<"x">> :> VObj(<<"y", "_", "z">> :> VInt(3)) @@ <<"x", "_", "y">> :> VObj(<<"z">> :> VInt(4))),
      VObj(<<"d", "a", "t", "a", "b", "a", "s", "e">> :> VObj(<<"h", "o", "s", "t">> :> VStr(<<"h">>) @@ <<"p", "o", "r", "t">> :> VInt(5432)) @@ <<"d", "e", "b", "u", "g">> :> VBool(TRUE)),
      VObj(<<"a">> :> VObj(<<"b">> :> VObj(<<"c">> :> VInt(7))) @@ <<"a", "_", "b">> :> VObj(<<"c">> :> VInt(8)) @@ <<"e">> :> EmptyObject),
      VInt(7),
      EmptyObject }

\* Candidate dot-paths handed to remap_env_key
Candidates ==
    { <<"f", "e", "a", "t", "u", "r", "e", ".", "f", "l", "a", "g", "s", ".", "b", "e", "t", "a", ".", "f", "e", "a", "t", "u", "r", "e">>,
      <<"d", "a", "t", "a", "b", "a", "s", "e", ".", "h", "o", "s", "t">>,
      <<"d", "e", "b", "u", "g">>,
      <<"a", ".", "b", ".", "c">>,
      <<"a", "_", "b", ".", "c">>,
      <<"a", ".", "b", "_", "c">>,
      <<"n", "e", "w", ".", "k", "e", "y", ".", "p", "a", "t", "h">>,
      <<"r", "a", "n", "d", "o", "m", ".", "e", "n", "v", ".", "v", "a", "r">>,
      <<"f", "e", "a", "t", "u", "r", "e", "s", ".", "n", "e", "w", ".", "u", "i">>,
      <<"a", ".", "b", ".", "c", ".", "d">>,
      <<"x", ".", "y", ".", "z">>,
      <<"a", ".", ".", "b">>,
      <<"a", ".", ".", "b", ".", "c", ".", "d">>,
      <<"a", ".", "b", ".", "c", "_", "d">>,
      <<"x">> }

InitEnvMapper ==
    /\ data_ \in BaseTrees
    /\ environ \in EnvVarLists
    /\ call = NoCall
    /\ ret = NoRet
    /\ nops = 0

\* transform_env_name(name)
TransformEnvName ==
    /\ call = NoCall
    /\ \E name \in EnvNames :
         /\ call' = [op |-> "transform_env_name", name |-> name]
         /\ ret' = Ok(transform_env_name(name))
    /\ UNCHANGED <<data_, environ, nops>>

\* strip_prefix(var_name, prefix)
StripPrefix ==
    /\ call = NoCall
    /\ \E var_name \in EnvNames, prefix \in PrefixStrings :
         /\ call' = [op |-> "strip_prefix", var_name |-> var_name, prefix |-> prefix]
         /\ ret' = Ok(strip_prefix(var_name, prefix))
    /\ UNCHANGED <<data_, environ, nops>>

\* collect_env_vars(prefix) in the environment environ
CollectEnvVars ==
    /\ call = NoCall
    /\ \E prefix \in EnvPrefixes :
         /\ call' = [op |-> "collect_env_vars", prefix |-> prefix]
         /\ ret' = Ok(collect_env_vars(prefix, environ))
    /\ UNCHANGED <<data_, environ, nops>>

\* env_vars_to_nested(env_vars, prefix), env_vars being the variables of environ
EnvVarsToNested ==
    /\ call = NoCall
    /\ \E prefix \in EnvPrefixes :
         /\ call' = [op |-> "env_vars_to_nested", env_vars |-> environ, prefix |-> prefix]
         /\ ret' = Ok(env_vars_to_nested(environ, prefix))
    /\ UNCHANGED <<data_, environ, nops>>

\* remap_env_key(dot_path, base_keys, prefix, load_dotenv), base_keys being the
\* flattened keys of data_
RemapEnvKey ==
    /\ call = NoCall
    /\ \E dot_path \in Candidates, prefix \in EnvPrefixes, load_dotenv \in BOOLEAN :
         /\ call' = [op |-> "remap_env_key", dot_path |-> dot_path,
                     base_keys |-> flatten_keys(data_, <<>>), prefix |-> prefix,
                     load_dotenv |-> load_dotenv]
         /\ ret' = Ok(remap_env_key(dot_path, flatten_keys(data_, <<>>), prefix,
                                    load_dotenv))
    /\ UNCHANGED <<data_, environ, nops>>

\* load_env_vars(prefix, data_, data_, file_data, load_dotenv) in the environment
\* environ
LoadEnvVars ==
    /\ call = NoCall
    /\ \E prefix \in EnvPrefixes, load_dotenv \in BOOLEAN :
         \E outcome \in load_env_vars(prefix, data_, data_, EmptyObject, load_dotenv,
                                      environ) :
           /\ call' = [op |-> "load_env_vars", prefix |-> prefix,
                       load_dotenv |-> load_dotenv]
           /\ ret' = outcome
    /\ UNCHANGED <<data_, environ, nops>>

\* remap_and_flatten_env_data(nested_env_data, data_, file_data, prefix,
\* load_dotenv), nested_env_data being a tree of NestedTrees or the tree
\* env_vars_to_nested makes of environ
RemapAndFlatten ==
    /\ call = NoCall
    /\ \E prefix \in EnvPrefixes, load_dotenv \in BOOLEAN :
         \E nested_env_data \in NestedTrees \cup {env_vars_to_nested(environ, prefix)} :
           \E outcome \in remap_and_flatten_env_data(nested_env_data, data_, EmptyObject,
                                                      prefix, load_dotenv) :
             /\ call' = [op |-> "remap_and_flatten_env_data",
                         nested_env_data |-> nested_env_data, prefix |-> prefix,
                         load_dotenv |-> load_dotenv]
             /\ ret' = outcome
    /\ UNCHANGED <<data_, environ, nops>>

NextEnvMapper ==
    \/ TransformEnvName
    \/ StripPrefix
    \/ CollectEnvVars
    \/ EnvVarsToNested
    \/ RemapEnvKey
    \/ LoadEnvVars
    \/ RemapAndFlatten

SpecEnvMapper == InitEnvMapper /\ [][NextEnvMapper]_vars

---------------------------------------------------------------------------
(* Claims about the environment mapper (SpecEnvMapper).                    *)

\* C11: transform_env_name("FEATURE_FLAGS__BETA") is "feature_flags.beta", and
\* env_vars_to_nested of the one variable MYAPP_FEATURE_FLAGS__BETA=true with the
\* prefix MYAPP is the tree {feature_flags: {beta: true}}.
C11_FeatureFlagsBeta ==
    /\ ( call.op = "transform_env_name" /\ call.name = <<"F", "E", "A", "T", "U", "R", "E", "_", "F", "L", "A", "G", "S", "_", "_", "B", "E", "T", "A">> )
       => ret.val = <<"f", "e", "a", "t", "u", "r", "e", "_", "f", "l", "a", "g", "s", ".", "b", "e", "t", "a">>
    /\ ( /\ call.op = "env_vars_to_nested"
         /\ call.env_vars = <<<<<<"M", "Y", "A", "P", "P", "_", "F", "E", "A", "T", "U", "R", "E", "_", "F", "L", "A", "G", "S", "_", "_", "B", "E", "T", "A">>, <<"t", "r", "u", "e">>>>>>
         /\ call.prefix = Some(<<"M", "Y", "A", "P", "P">>) )
       => ret.val = VObj(<<"f", "e", "a", "t", "u", "r", "e", "_", "f", "l", "a", "g", "s">> :> VObj(<<"b", "e", "t", "a">> :> VBool(TRUE)))

RECURSIVE RewriteUnderscores(_, _)
\* the rewriting C12 describes, from position i on: underscores paired from the
\* left, a pair giving one underscore and a single underscore giving a dot
RewriteUnderscores(s, i) ==
    IF i > Len(s) THEN <<>>
    ELSE IF s[i] = "_" /\ i < Len(s) /\ s[i + 1] = "_"
    THEN <<"_">> \o RewriteUnderscores(s, i + 2)
    ELSE IF s[i] = "_" THEN <<".">> \o RewriteUnderscores(s, i + 1)
    ELSE <<s[i]>> \o RewriteUnderscores(s, i + 1)

\* C12: transform_env_name gives the lowercased name with each double underscore,
\* paired from the left, turned into one underscore and each remaining underscore
\* into a dot, and with no other character added.
C12_UnderscoreRewriting ==
    call.op = "transform_env_name"
    => ret.val = RewriteUnderscores(to_lower(call.name), 1)

\* the key with its dots replaced by underscores
FlatKey(key) == replace_all(key, <<".">>, <<"_">>)

\* the key is a path of two segments R.S
TwoSegments(key) ==
    /\ Len(split_dot_path(key)) = 2
    /\ key = join_dot_path(split_dot_path(key))

\* C15 as amended: when the candidate with its dots replaced by underscores is
\* R_S for a two-segment base path R.S, and no other base path gives R_S when its
\* dots are replaced by underscores, the result of remap_env_key is R.S.
C15_RemapUniqueTwoSegment ==
    call.op = "remap_env_key" =>
      \A k \in call.base_keys :
        ( /\ TwoSegments(k)
          /\ FlatKey(call.dot_path) = FlatKey(k)
          /\ \A other \in call.base_keys : FlatKey(other) = FlatKey(k) => other = k )
        => ret.val = k

\* C15 as stated: when the base-path set contains a two-segment path R.S and the
\* segments of the candidate joined by underscores are R_S, the result is R.S.
C15_RemapTwoSegment ==
    call.op = "remap_env_key" =>
      \A k \in call.base_keys :
        ( /\ TwoSegments(k)
          /\ JoinWith(split_dot_path(call.dot_path), <<"_">>) = FlatKey(k) )
        => ret.val = k

\* feature.flags.beta.feature is remapped to the base path
\* feature_flags.beta_feature
C15_Witness ==
    /\ call.op = "remap_env_key"
    /\ call.dot_path = <<"f", "e", "a", "t", "u", "r", "e", ".", "f", "l", "a", "g", "s", ".", "b", "e", "t", "a", ".", "f", "e", "a", "t", "u", "r", "e">>
    /\ <<"f", "e", "a", "t", "u", "r", "e", "_", "f", "l", "a", "g", "s", ".", "b", "e", "t", "a", "_", "f", "e", "a", "t", "u", "r", "e">> \in call.base_keys
    /\ ret.val = <<"f", "e", "a", "t", "u", "r", "e", "_", "f", "l", "a", "g", "s", ".", "b", "e", "t", "a", "_", "f", "e", "a", "t", "u", "r", "e">>

\* C17: strip_prefix("MYAPP_VALUE", "MYAPP_") is "VALUE", and load_env_vars with
\* the prefix "MYAPP_" returns what it returns with the prefix "MYAPP", in every
\* environment.
C17_PrefixNormalised ==
    /\ ( /\ call.op = "strip_prefix"
         /\ call.var_name = <<"M", "Y", "A", "P", "P", "_", "V", "A", "L", "U", "E">>
         /\ call.prefix = <<"M", "Y", "A", "P", "P", "_">> )
       => ret.val = <<"V", "A", "L", "U", "E">>
    /\ ( call.op = "load_env_vars" /\ call.prefix = Some(<<"M", "Y", "A", "P", "P", "_">>) )
       => ret \in load_env_vars(Some(<<"M", "Y", "A", "P", "P">>), data_, data_, EmptyObject,
                                call.load_dotenv, environ)

---------------------------------------------------------------------------
(* parse_value applied to arbitrary strings (SpecParse).                   *)

\* Characters the short inputs are built from
ParseAlphabet ==
    { "0",
      "1",
      "-",
      ".",
      "e",
      "[",
      "]",
      "\"" }

\* Longer inputs: keywords, numbers at the limits, JSON texts, quoted strings
ParseSamples ==
    { <<"t", "r", "u", "e">>,
      <<"T", "r", "u", "e">>,
      <<"F", "A", "L", "S", "E">>,
      <<"n", "u", "l", "l">>,
      <<"N", "U", "L", "L">>,
      <<"t", "r", "u", "e", "x">>,
      <<"n", "u", "l">>,
      <<"4", "2">>,
      <<"-", "4", "2">>,
      <<"0", "0", "7">>,
      <<"-", "0">>,
      <<"+", "5">>,
      <<"9", "2", "2", "3", "3", "7", "2", "0", "3", "6", "8", "5", "4", "7", "7", "5", "8", "0", "7">>,
      <<"9", "2", "2", "3", "3", "7", "2", "0", "3", "6", "8", "5", "4", "7", "7", "5", "8", "0", "8">>,
      <<"-", "9", "2", "2", "3", "3", "7", "2", "0", "3", "6", "8", "5", "4", "7", "7", "5", "8", "0", "8">>,
      <<"-", "9", "2", "2", "3", "3", "7", "2", "0", "3", "6", "8", "5", "4", "7", "7", "5", "8", "0", "9">>,
      <<"3", ".", "1", "4">>,
      <<"-", "2", ".", "5", "e", "1", "0">>,
      <<"1", ".", "5", "E", "+", "3">>,
      <<"1", ".", "0", "e", "9", "9", "9">>,
      <<"-", "1", ".", "0", "e", "9", "9", "9">>,
      <<"1", ".", "0", "E", "-", "9", "9", "9">>,
      <<"0", ".", "0", "e", "9", "9", "9">>,
      <<"1", ".">>,
      <<"1", "e", "5">>,
      <<"1", ".", "5", "e">>,
      <<"0", "0", ".", "5", "0">>,
      <<"{", "\"", "a", "\"", ":", " ", "1", "}">>,
      <<"{", "\"", "a", "\"", ":", " ", "{", "\"", "b", "\"", ":", " ", "[", "1", ",", " ", "\"", "x", "\"", ",", " ", "n", "u", "l", "l", ",", " ", "t", "r", "u", "e", "]", "}", "}">>,
      <<"{", "\"", "a", "\"", ":", " ", "1", ",", " ", "\"", "a", "\"", ":", " ", "2", "}">>,
      <<"[", "1", ",", " ", "2">>,
      <<"{", "b", "a", "d", "}">>,
      <<"[", "]">>,
      <<"{", "}">>,
      <<"[", "1", ",", " ", "2", ".", "5", ",", " ", "\"", "s", "\"", "]">>,
      <<"[", "9", "2", "2", "3", "3", "7", "2", "0", "3", "6", "8", "5", "4", "7", "7", "5", "8", "0", "8", "]">>,
      <<"\"", "q", "u", "o", "t", "e", "d", "\"">>,
      <<"\"", "a", "\\", "n", "b", "\"">>,
      <<"\"", "1", "2", "3", "\"">>,
      <<"\"", "t", "r", "u", "e", "\"">>,
      <<"\"", "u", "n", "t", "e", "r", "m", "i", "n", "a", "t", "e", "d">>,
      <<"\"", "a", "\"", " ", "\"", "b", "\"">>,
      <<"\"", "b", "a", "d", "\\", "q", "\"">>,
      <<" ", "4", "2">>,
      <<"4", "2", " ">>,
      <<"h", "e", "l", "l", "o", " ", "w", "o", "r", "l", "d">>,
      <<"a", ".", "b">>,
      <<"h", "t", "t", "p", ":", "/", "/", "x", ":", "1", "/", "y">>,
      <<"{">>,
      <<"\"">>,
      <<"[", "t", "r", "u", "e", "]", "x">> }

\* the longest string built from ParseAlphabet
MaxParseLen == 3

\* The strings handed to parse_value: all short strings over ParseAlphabet and the
\* samples
ParseInputs == SeqsUpTo(ParseAlphabet, MaxParseLen) \cup ParseSamples

InitParse ==
    /\ data_ = VNull
    /\ environ = <<>>
    /\ call = NoCall
    /\ ret = NoRet
    /\ nops = 0

\* parse_value(str)
ParseValue ==
    /\ call = NoCall
    /\ \E str \in ParseInputs :
         /\ call' = [op |-> "parse_value", str |-> str]
         /\ ret' = Ok(parse_value(str))
    /\ UNCHANGED <<data_, environ, nops>>

NextParse == ParseValue

SpecParse == InitParse /\ [][NextParse]_vars

---------------------------------------------------------------------------
(* Claims about parse_value (SpecParse).                                   *)

\* the string starts with front and ends with back
Enclosed(str, front, back) ==
    Len(str) >= 2 /\ str[1] = front /\ str[Len(str)] = back

\* rules 5 to 7 for a string that no earlier rule matched, json being what the JSON
\* parser makes of it
LaterRules(str, v, json) ==
    IF (Enclosed(str, "{", "}") \/ Enclosed(str, "[", "]")) /\ json.exc = "none"
    THEN v = json.val /\ (is_object(v) \/ is_array(v))
    ELSE IF Enclosed(str, "\"", "\"") /\ json.exc = "none" /\ is_string(json.val)
    THEN v = json.val
    ELSE v = VStr(str)

\* rules 1 and 2, which no other rule precedes
IsKeyword(str) == to_lower(str) \in {<<"t", "r", "u", "e">>, <<"f", "a", "l", "s", "e">>, <<"n", "u", "l", "l">>}

KeywordRules(str, v) ==
    IF to_lower(str) = <<"t", "r", "u", "e">> THEN v = VBool(TRUE)
    ELSE IF to_lower(str) = <<"f", "a", "l", "s", "e">> THEN v = VBool(FALSE)
    ELSE v = VNull

\* the text matches the integer expression and its value fits int64
Int64Text(str) == MatchesInteger(str) /\ stoll(str).exc = "none"

\* the text matches the float expression and its value is in the range of a double
DoubleText(str) == MatchesFloat(str) /\ stod(str).exc = "none"

---------------------------------------------------------------------------
(* Seeding the environment from a .env file (SpecDotenv).                   *)

\* Disks: with a .env in the current directory, with one in the parent only, with none
DotenvDisks ==
    { (<<".", "e", "n", "v">> :> [text |-> <<"A", "=", "1", "\n", "B", "=", "2", "\n">>] @@
      <<".", ".", "/", ".", "e", "n", "v">> :> [text |-> <<"A", "=", "p", "a", "r", "e", "n", "t", "\n", "P", "=", "u", "p", "\n">>] @@
      <<"d", "u", "p", ".", "e", "n", "v">> :> [text |-> <<"A", "=", "f", "i", "r", "s", "t", "\n", "A", "=", "s", "e", "c", "o",
          "n", "d", "\n", "C", "=", "3", "\n", "C", "=", "4", "\n">>] @@
      <<"t", "e", "s", "t", ".", "e", "n", "v">> :> [text |-> <<"E", "X", "I", "S", "T", "I", "N", "G", "_", "V", "A", "R", "=", "f",
          "r", "o", "m", "_", "f", "i", "l", "e", "\n", "N", "E", "W", "_", "V", "A",
          "R", "=", "n", "e", "w", "_", "v", "a", "l", "u", "e", "\n">>] @@
      <<"f", "m", "t", ".", "e", "n", "v">> :> [text |-> <<"#", " ", "c", "o", "m", "m", "e", "n", "t", "\n", "e", "x", "p", "o",
          "r", "t", " ", "A", " ", "=", " ", "\"", "q", "\\", "n", "\"", " ", "#",
          " ", "c", "\n", "=", "n", "o", "v", "a", "l", "u", "e", "\n", "N", "O",
          "E", "Q", "\n", " ", " ", "B", "=", "'", "x", " ", "#", " ", "y", "'",
          "\r", "\n", "C", "=", "\n", "e", "x", "p", "o", "r", "t", " ", "D", "=",
          "d", "#", "e", "\n">>] @@
      <<"e", "m", "p", "t", "y", ".", "e", "n", "v">> :> [text |-> <<>>]),
      (<<".", ".", "/", ".", "e", "n", "v">> :> [text |-> <<"A", "=", "p", "a", "r", "e", "n", "t", "\n", "P", "=", "u", "p", "\n">>] @@
      <<"d", "u", "p", ".", "e", "n", "v">> :> [text |-> <<"A", "=", "f", "i", "r", "s", "t", "\n", "A", "=", "s", "e", "c", "o",
          "n", "d", "\n", "C", "=", "3", "\n", "C", "=", "4", "\n">>] @@
      <<"t", "e", "s", "t", ".", "e", "n", "v">> :> [text |-> <<"E", "X", "I", "S", "T", "I", "N", "G", "_", "V", "A", "R", "=", "f",
          "r", "o", "m", "_", "f", "i", "l", "e", "\n", "N", "E", "W", "_", "V", "A",
          "R", "=", "n", "e", "w", "_", "v", "a", "l", "u", "e", "\n">>] @@
      <<"f", "m", "t", ".", "e", "n", "v">> :> [text |-> <<"#", " ", "c", "o", "m", "m", "e", "n", "t", "\n", "e", "x", "p", "o",
          "r", "t", " ", "A", " ", "=", " ", "\"", "q", "\\", "n", "\"", " ", "#",
          " ", "c", "\n", "=", "n", "o", "v", "a", "l", "u", "e", "\n", "N", "O",
          "E", "Q", "\n", " ", " ", "B", "=", "'", "x", " ", "#", " ", "y", "'",
          "\r", "\n", "C", "=", "\n", "e", "x", "p", "o", "r", "t", " ", "D", "=",
          "d", "#", "e", "\n">>] @@
      <<"e", "m", "p", "t", "y", ".", "e", "n", "v">> :> [text |-> <<>>]),
      (<<"d", "u", "p", ".", "e", "n", "v">> :> [text |-> <<"A", "=", "f", "i", "r", "s", "t", "\n", "A", "=", "s", "e", "c", "o",
          "n", "d", "\n", "C", "=", "3", "\n", "C", "=", "4", "\n">>] @@
      <<"t", "e", "s", "t", ".", "e", "n", "v">> :> [text |-> <<"E", "X", "I", "S", "T", "I", "N", "G", "_", "V", "A", "R", "=", "f",
          "r", "o", "m", "_", "f", "i", "l", "e", "\n", "N", "E", "W", "_", "V", "A",
          "R", "=", "n", "e", "w", "_", "v", "a", "l", "u", "e", "\n">>] @@
      <<"f", "m", "t", ".", "e", "n", "v">> :> [text |-> <<"#", " ", "c", "o", "m", "m", "e", "n", "t", "\n", "e", "x", "p", "o",
          "r", "t", " ", "A", " ", "=", " ", "\"", "q", "\\", "n", "\"", " ", "#",
          " ", "c", "\n", "=", "n", "o", "v", "a", "l", "u", "e", "\n", "N", "O",
          "E", "Q", "\n", " ", " ", "B", "=", "'", "x", " ", "#", " ", "y", "'",
          "\r", "\n", "C", "=", "\n", "e", "x", "p", "o", "r", "t", " ", "D", "=",
          "d", "#", "e", "\n">>] @@
      <<"e", "m", "p", "t", "y", ".", "e", "n", "v">> :> [text |-> <<>>]) }

\* Environments before the call
DotenvEnvironments ==
    { <<>>,
      <<<<<<"A">>, <<"o", "l", "d">>>>>>,
      <<<<<<"A">>, <<>>>>,
         <<<<"B">>, <<"k", "e", "p", "t">>>>>>,
      <<<<<<"E", "X", "I", "S", "T", "I", "N", "G", "_", "V", "A", "R">>, <<"e", "x", "i", "s", "t", "i", "n", "g", "_", "v", "a", "l", "u", "e">>>>>>,
      <<<<<<"C">>, <<"c", "0">>>>,
         <<<<"H", "O", "M", "E">>, <<"/", "r", "o", "o", "t">>>>>> }

\* The path argument: empty (search), files on the disks, a missing file
DotenvArguments ==
    { <<>>,
      <<".", "e", "n", "v">>,
      <<"d", "u", "p", ".", "e", "n", "v">>,
      <<"t", "e", "s", "t", ".", "e", "n", "v">>,
      <<"f", "m", "t", ".", "e", "n", "v">>,
      <<"e", "m", "p", "t", "y", ".", "e", "n", "v">>,
      <<"m", "i", "s", "s", "i", "n", "g", ".", "e", "n", "v">> }

\* load_dotenv_file: the value it returns
LoadDotenvFileReturn(path, disk) ==
    LET dotenv_path == IF path = <<>> THEN find_dotenv(disk) ELSE path IN
    IF dotenv_path = <<>> THEN FALSE
    ELSE parse_dotenv_file(dotenv_path, disk).found

InitDotenv ==
    /\ data_ = VNull
    /\ environ \in DotenvEnvironments
    /\ call = NoCall
    /\ ret = NoRet
    /\ nops = 0

\* load_dotenv_file(path, override_existing)
LoadDotenvFile ==
    /\ call = NoCall
    /\ \E path \in DotenvArguments, override_existing \in BOOLEAN, disk \in DotenvDisks :
         /\ call' = [op |-> "load_dotenv_file", path |-> path,
                     override_existing |-> override_existing, disk |-> disk,
                     before |-> environ]
         /\ environ' = load_dotenv_file(path, override_existing, environ, disk)
         /\ ret' = Ok(LoadDotenvFileReturn(path, disk))
    /\ UNCHANGED <<data_, nops>>

\* set_env_var(name, value, overwrite)
SetEnvVar ==
    /\ call = NoCall
    /\ \E name \in {<<"A">>, <<"N", "E", "W", "_", "V", "A", "R">>, <<>>}, value \in {<<>>, <<"v">>}, overwrite \in BOOLEAN :
         /\ call' = [op |-> "set_env_var", name |-> name, value |-> value,
                     overwrite |-> overwrite, before |-> environ]
         /\ environ' = set_env_var(name, value, overwrite, environ)
         /\ ret' = Ok(IF ~overwrite /\ has_env_var(name, environ) THEN FALSE
                      ELSE name # <<>>)
    /\ UNCHANGED <<data_, nops>>

NextDotenv ==
    \/ LoadDotenvFile
    \/ SetEnvVar

SpecDotenv == InitDotenv /\ [][NextDotenv]_vars

---------------------------------------------------------------------------
(* Claims about the .env file (SpecDotenv).                                 *)

\* the variable is set in the environment
IsSet(env, name) == \E i \in 1..Len(env) : env[i][1] = name

\* getenv: the value of a variable that is set
ValueOf(env, name) ==
    env[CHOOSE i \in 1..Len(env) :
              env[i][1] = name /\ \A j \in 1..(i - 1) : env[j][1] # name][2]

\* the file load_dotenv_file(path) reads on the disk: the path given, or for the
\* empty path the .env of the current directory, else the one of its parent
DotenvFileOf(path, disk) ==
    IF path # <<>> THEN path
    ELSE IF <<".", "e", "n", "v">> \in DOMAIN disk THEN <<".", "e", "n", "v">> ELSE <<".", ".", "/", ".", "e", "n", "v">>

\* C21: after load_dotenv_file with override_existing = false every variable that
\* was set keeps its value, every key of the file that was not set has the value
\* of its first occurrence in the file, and the call returns true exactly when
\* the file was found.
C21_DotenvKeepsExisting ==
    (call.op = "load_dotenv_file" /\ ~call.override_existing) =>
      LET file == DotenvFileOf(call.path, call.disk)
          found == file \in DOMAIN call.disk
          entries == IF found THEN parse_dotenv_file(file, call.disk).entries ELSE <<>>
      IN /\ \A i \in 1..Len(call.before) :
              /\ IsSet(environ, call.before[i][1])
              /\ ValueOf(environ, call.before[i][1]) = call.before[i][2]
         /\ \A i \in 1..Len(entries) :
              ~IsSet(call.before, entries[i][1]) =>
                /\ IsSet(environ, entries[i][1])
                /\ ValueOf(environ, entries[i][1]) = ValueOf(entries, entries[i][1])
         /\ ret.val = found

\* a call with override_existing = false on a file that holds a variable already
\* set, another one twice, and that was found
C21_Witness ==
    /\ call.op = "load_dotenv_file"
    /\ ~call.override_existing
    /\ call.path = <<"d", "u", "p", ".", "e", "n", "v">>
    /\ call.before = <<<<<<"A">>, <<"o", "l", "d">>>>>>
    /\ environ = <<<<<<"A">>, <<"o", "l", "d">>>>, <<<<"C">>, <<"3">>>>>>
    /\ ret.val = TRUE

---------------------------------------------------------------------------
(* Claims about set and about arrays (SpecDotPath).                        *)

RECURSIVE Descend(_, _, _)
\* where the first k segments lead from the tree through Objects: to a node, to a
\* key its parent Object does not hold ("absent"), or nowhere because a node above
\* is absent or is not an Object ("blocked")
Descend(tree, segments, k) ==
    IF k = 0 THEN [st |-> "node", val |-> tree]
    ELSE LET parent == Descend(tree, segments, k - 1) IN
         IF parent.st # "node" \/ ~is_object(parent.val) THEN [st |-> "blocked"]
         ELSE IF segments[k] \notin DOMAIN parent.val.o THEN [st |-> "absent"]
         ELSE [st |-> "node", val |-> parent.val.o[segments[k]]]

RECURSIVE Written(_, _, _, _)
\* the tree with the value as the member named by the segments from the i-th on,
\* every node above it that exists being an Object and the missing ones being
\* created as Objects
Written(tree, segments, i, value) ==
    IF i > Len(segments) THEN value
    ELSE ObjPut(tree, segments[i],
                Written(IF segments[i] \in DOMAIN tree.o THEN tree.o[segments[i]]
                        ELSE EmptyObject, segments, i + 1, value))

\* C22: set with create_missing = false fails with TypeError when a node above the
\* final segment is present and is not an Object, with KeyError when an
\* intermediate segment is absent from its parent Object, and otherwise does not
\* fail and writes the value as the member named by the final segment.
C22_SetStrict ==
    (call.op = "set_by_dot" /\ ~call.create_missing) =>
      LET segments == split_dot_path(call.path)
          n == Len(segments)
      IN IF \E k \in 0..(n - 1) :
                /\ Descend(call.before, segments, k).st = "node"
                /\ ~is_object(Descend(call.before, segments, k).val)
         THEN ret.exc = "TypeError"
         ELSE IF \E k \in 1..(n - 1) : Descend(call.before, segments, k).st = "absent"
         THEN ret.exc = "KeyError"
         ELSE /\ ret.exc = "none"
              /\ n > 0 => data_ = Written(call.before, segments, 1, call.value)

\* a strict set that created the final key under an existing Object
C22_Witness ==
    /\ call.op = "set_by_dot"
    /\ ~call.create_missing
    /\ call.path = <<"a", ".", "x">>
    /\ call.before = VObj(kA :> VObj(kB :> VInt(1)))
    /\ ret.exc = "none"
    /\ data_ = VObj(kA :> VObj(kB :> VInt(1) @@ <<"x">> :> call.value))

\* the proper prefixes of the segments lead through Objects as far as they exist
PrefixesAreObjects(tree, segments) ==
    \A k \in 0..(Len(segments) - 1) :
        Descend(tree, segments, k).st = "node" => is_object(Descend(tree, segments, k).val)

\* the paths the frame is checked on: those of the calls and those of the nodes of
\* the tree before and after the call
FramePaths == Paths \cup PathsOf(call.before, <<>>) \cup PathsOf(data_, <<>>)

\* C27: when every existing node on the proper prefixes of p is an Object,
\* set(tree, p, v, create_missing = true) does not fail, the tree after it is the
\* tree before it with v at p and with the missing Objects above p created, and
\* for every path q that is neither a prefix nor an extension of p contains(q) and
\* get(q) give the same result before and after the call.
C27_SetFrame ==
    (/\ call.op = "set_by_dot"
     /\ call.create_missing
     /\ PrefixesAreObjects(call.before, split_dot_path(call.path))) =>
      /\ ret.exc = "none"
      /\ data_ = Written(call.before, split_dot_path(call.path), 1, call.value)
      /\ \A q \in FramePaths :
           ~Along(split_dot_path(q), split_dot_path(call.path)) =>
             /\ contains_dot(data_, q) = contains_dot(call.before, q)
             /\ get_by_dot(data_, q) = get_by_dot(call.before, q)

\* a set that created two Objects beside members that stayed as they were
C27_Witness ==
    /\ call.op = "set_by_dot"
    /\ call.create_missing
    /\ call.path = <<"a", ".", "b", ".", "c", ".", "d">>
    /\ call.before = VObj(kA :> VObj(kB :> VNull @@ kC :> EmptyObject))
    /\ call.value = VInt(1)
    /\ data_ = VObj(kA :> VObj(kB :> VObj(kC :> VObj(<<"d">> :> VInt(1))) @@ kC :> EmptyObject))

\* C28: a set with create_missing = false that fails with KeyError or TypeError
\* leaves the tree exactly as it was before the call.
C28_FailingSetAtomic ==
    (/\ call.op = "set_by_dot"
     /\ ~call.create_missing
     /\ ret.exc \in {"KeyError", "TypeError"}) => data_ = call.before

\* a strict set that failed on a key its parent Object does not hold
C28_Witness ==
    /\ call.op = "set_by_dot"
    /\ ~call.create_missing
    /\ call.path = <<"1", ".", "a">>
    /\ call.before = VObj(kA :> VObj(kB :> VInt(1)))
    /\ ret.exc = "KeyError"
    /\ data_ = call.before

\* the segment is a non-negative integer below the size of the array
InBounds(segment, size) ==
    /\ is_array_index(segment)
    /\ Len(segment) <= SmallIndexDigits
    /\ DigitsToNat(segment, 1, 0) < size

RECURSIVE Reach(_, _, _)
\* the node the first k segments lead to, through Objects by key and through
\* Arrays by an index within bounds
Reach(tree, segments, k) ==
    IF k = 0 THEN [st |-> "node", val |-> tree]
    ELSE LET parent == Reach(tree, segments, k - 1) IN
         IF parent.st # "node" THEN [st |-> "none"]
         ELSE IF is_object(parent.val) /\ segments[k] \in DOMAIN parent.val.o
         THEN [st |-> "node", val |-> parent.val.o[segments[k]]]
         ELSE IF is_array(parent.val) /\ InBounds(segments[k], Len(parent.val.a))
         THEN [st |-> "node", val |-> parent.val.a[DigitsToNat(segments[k], 1, 0) + 1]]
         ELSE [st |-> "none"]

\* the outcome of the last lookup is the one of a path that does not resolve
\* because of a missing key or index
LookupMissed ==
    \/ call.op = "get_by_dot" /\ ret = Throw("KeyError")
    \/ call.op = "get_by_dot_default" /\ ret = Ok(call.default_val)
    \/ call.op = "contains_dot" /\ ret = Ok(FALSE)

\* the outcome of the last lookup is the one of a path that resolves to the node
LookupFound(node) ==
    \/ call.op \in {"get_by_dot", "get_by_dot_default"} /\ ret = Ok(node)
    \/ call.op = "contains_dot" /\ ret = Ok(TRUE)

\* C23: when the traversal of a lookup reaches an Array, a segment that is not a
\* non-negative integer within the bounds of the array makes get fail with
\* KeyError, get with a default return the default and contains return false, and
\* no other error escapes; a path that ends with an index within bounds gives the
\* element.
C23_ArrayIndexErrors ==
    IsLookup =>
      \A k \in 0..(Len(split_dot_path(call.path)) - 1) :
        LET segments == split_dot_path(call.path)
            at == Reach(data_, segments, k)
        IN (at.st = "node" /\ is_array(at.val)) =>
             IF ~InBounds(segments[k + 1], Len(at.val.a)) THEN LookupMissed
             ELSE k + 1 = Len(segments) => LookupFound(Reach(data_, segments, k + 1).val)

---------------------------------------------------------------------------
(* Claims about the order of the rules and about the whole mapper           *)
(* (SpecEnvMapper).                                                         *)

RECURSIVE SplitCandidates(_, _)
\* the candidates of the split rule in the order they are tried: for every
\* underscore of the flat key from the left, the text before it, a dot, and the
\* text after it, first with its underscores as dots, then with them kept
SplitCandidates(flat, underscore_pos) ==
    IF underscore_pos = 0 THEN <<>>
    ELSE LET root == SubSeq(flat, 1, underscore_pos - 1)
             rest == SubSeq(flat, underscore_pos + 1, Len(flat))
         IN <<root \o <<".">> \o replace_all(rest, <<"_">>, <<".">>),
              root \o <<".">> \o rest>>
            \o SplitCandidates(flat, FindChar(flat, "_", underscore_pos + 1))

\* a rule that did not match, and one that matched with a result
NoMatch == [hit |-> FALSE]
Match(r) == [hit |-> TRUE, r |-> r]

\* the rules of remap_env_key for the last call, each with its result when it
\* matches
ExactRule == IF call.dot_path \in call.base_keys THEN Match(call.dot_path) ELSE NoMatch

FlatRule ==
    IF FlatKey(call.dot_path) \in call.base_keys THEN Match(FlatKey(call.dot_path))
    ELSE NoMatch

SplitRule ==
    LET cands == SplitCandidates(FlatKey(call.dot_path), FindChar(FlatKey(call.dot_path), "_", 1))
        hits == { n \in 1..Len(cands) : cands[n] \in call.base_keys }
    IN IF hits = {} THEN NoMatch
       ELSE Match(cands[CHOOSE n \in hits : \A m \in hits : n <= m])

LongestPrefixRule ==
    LET segments == split_dot_path(call.dot_path)
        longest == RemapLongestPrefix(segments, Len(segments), call.base_keys)
    IN IF longest # <<>> THEN Match(longest) ELSE NoMatch

FallbackRule ==
    Match(RemapFallback(call.dot_path, FlatKey(call.dot_path), call.prefix, call.load_dotenv))

\* the result of the first rule of the sequence that matches
FirstMatch(rules) ==
    rules[CHOOSE n \in 1..Len(rules) :
            rules[n].hit /\ \A m \in 1..(n - 1) : ~rules[m].hit].r

\* C24 as amended: remap_env_key returns the result of the first rule that
\* matches in the order: exact match of the candidate; the split candidates at
\* successive underscore positions; the candidate's segments fully joined by
\* underscores as a flat base key; the longest-prefix search; the fallback.
C24_SplitBeforeFlat ==
    call.op = "remap_env_key" =>
      ret.val = FirstMatch(<<ExactRule, SplitRule, FlatRule, LongestPrefixRule, FallbackRule>>)

\* C24 as stated: the flat base key is tried before the split candidates.
C24_FlatBeforeSplit ==
    call.op = "remap_env_key" =>
      ret.val = FirstMatch(<<ExactRule, FlatRule, SplitRule, LongestPrefixRule, FallbackRule>>)

\* the candidate a.b.c remapped against a base that holds a.b_c, a_b.c and a_b_c
C24_Witness ==
    /\ call.op = "remap_env_key"
    /\ call.dot_path = <<"a", ".", "b", ".", "c">>
    /\ {<<"a", ".", "b", "_", "c">>, <<"a", "_", "b", ".", "c">>, <<"a", "_", "b", "_", "c">>} \subseteq call.base_keys
    /\ ret.val = <<"a", ".", "b", "_", "c">>

\* every segment of the path is non-empty: no leading, trailing or doubled dot
NonEmptySegments(path) ==
    path # <<>> /\ JoinWith(split_dot_path(path), <<".">>) = path

\* C29: for a candidate whose segments are all non-empty, whatever the base paths,
\* the prefix and the dotenv flag, a non-empty result of remap_env_key has the
\* text of the candidate once the dots of both are replaced by underscores.
C29_RemapKeepsKeyText ==
    (/\ call.op = "remap_env_key"
     /\ NonEmptySegments(call.dot_path)
     /\ ret.val # <<>>) => FlatKey(ret.val) = FlatKey(call.dot_path)

\* a candidate remapped by the longest-prefix search to a path that is not a base
\* path
C29_Witness ==
    /\ call.op = "remap_env_key"
    /\ call.dot_path = <<"a", ".", "b", ".", "c", ".", "d">>
    /\ ret.val = <<"a", "_", "b", ".", "c", ".", "d">>
    /\ ret.val \notin call.base_keys

\* the candidate leaves of the tree handed to remap_and_flatten_env_data: the
\* paths of its nodes that are not Objects
CandidateLeaves ==
    { c \in PathsOf(call.nested_env_data, <<>>) :
        ~is_object(get_by_dot(call.nested_env_data, c).val) }

\* the candidate leaves that remap to the final key
RemappingTo(final_key) ==
    { c \in CandidateLeaves :
        remap_env_key(c, flatten_keys(data_, <<>>), call.prefix, call.load_dotenv)
          = final_key }

\* C25: remap_and_flatten_env_data returns at most one pair per final key, no pair
\* whose value is an Object or whose final key is empty, and for every final key
\* the value of a candidate leaf that remaps to it and has the most segments of
\* the leaves that do.
C25_OnePairPerKey ==
    (call.op = "remap_and_flatten_env_data" /\ ret.exc = "none") =>
      /\ \A i, j \in 1..Len(ret.val) : ret.val[i][1] = ret.val[j][1] => i = j
      /\ \A i \in 1..Len(ret.val) :
           /\ ~is_object(ret.val[i][2])
           /\ ret.val[i][1] # <<>>
           /\ \E c \in RemappingTo(ret.val[i][1]) :
                /\ get_by_dot(call.nested_env_data, c).val = ret.val[i][2]
                /\ \A d \in RemappingTo(ret.val[i][1]) :
                     Len(split_dot_path(c)) >= Len(split_dot_path(d))

\* the leaves a.b.c and a_b.c both remap to the base path a_b.c and the value of
\* a.b.c is the one kept
C25_Witness ==
    /\ call.op = "remap_and_flatten_env_data"
    /\ RemappingTo(<<"a", "_", "b", ".", "c">>) = {<<"a", ".", "b", ".", "c">>, <<"a", "_", "b", ".", "c">>}
    /\ \E i \in 1..Len(ret.val) : ret.val[i] = <<<<"a", "_", "b", ".", "c">>, VInt(7)>>

\* the variable is collected under the prefix and its name without the prefix
\* gives a dot-path of zero segments
Malformed(name, prefix) ==
    /\ prefix.has
    /\ prefix.v # <<>>
    /\ starts_with_icase(name, prefix.v \o <<"_">>)
    /\ strip_prefix(name, prefix.v) # <<>>
    /\ split_dot_path(transform_env_name(strip_prefix(name, prefix.v))) = <<>>

\* the environment without its n-th variable
Unset(env, n) == SubSeq(env, 1, n - 1) \o SubSeq(env, n + 1, Len(env))

\* C26: a variable whose name gives a dot-path of zero segments contributes nothing
\* and changes nothing else: the tree load_env_vars returns is one it returns
\* when the variable is not set.
C26_MalformedIsolated ==
    call.op = "load_env_vars" =>
      \A n \in 1..Len(environ) :
        Malformed(environ[n][1], call.prefix) =>
          ret \in load_env_vars(call.prefix, data_, data_, EmptyObject, call.load_dotenv,
                                Unset(environ, n))

\* the orders in which the process environment may enumerate the variables of env
Enumerations(env) == Orders({env[n] : n \in 1..Len(env)})

\* C30: the tree load_env_vars returns does not depend on the order in which the
\* environment enumerates its variables: it is a tree load_env_vars returns for
\* every other order of the same variables.
C30_OrderIndependent ==
    call.op = "load_env_vars" =>
      \A env \in Enumerations(environ) :
        ret \in load_env_vars(call.prefix, data_, data_, EmptyObject, call.load_dotenv, env)

=============================================================================
